---- MODULE Spec2Model ----
(***************************************************************************)
(* YT-Labs: a model of the chunked CDN relay (GET /api/proxy), taken from  *)
(* src/app/api/proxy/route.js (the chunked version, lines 80-312).         *)
(*                                                                         *)
(* Sizes and offsets are counted in blocks of 1 MiB, so CHUNK_SIZE is 4.   *)
(* A source byte is identified by its offset: the resource of size         *)
(* upstreamSize is the sequence 0, 1, ..., upstreamSize-1, and `emitted`   *)
(* is the sequence of source offsets handed to controller.enqueue.         *)
(***************************************************************************)
EXTENDS Integers, Sequences, FiniteSets, TLC

\* ---------------------------------------------------------------- bounds
MaxSize == 9          \* largest upstream resource, in blocks
MaxCap == 5           \* largest per-request cap of the upstream, in blocks
MaxRangeOff == 6      \* largest offset a caller Range header names
MaxEmitted == 12      \* blocks a relay has emitted when the model stops following it

\* ------------------------------------------------------ program constants
CHUNK_SIZE == 4
MAX_CHUNK_RETRIES == 3
BACKOFF_MS == 500
HIGH_WATER_MARK == 1

ALLOWED_HOSTS ==
  { <<".", "googlevideo", ".", "com">>,
    <<".", "youtube", ".", "com">>,
    <<".", "ytimg", ".", "com">> }

\* ------------------------------------------------------------- JS values
None == <<>>
Some(x) == <<x>>
IsSome(o) == o # None
Val(o) == o[1]
\* JS truthiness of a number-or-null: null and 0 are falsy.
Truthy(o) == IsSome(o) /\ Val(o) # 0
Min(a, b) == IF a <= b THEN a ELSE b
Range(s, e) == [i \in 1..(e - s + 1) |-> s + i - 1]

\* --------------------------------------------------------------- strings
\* A string is a sequence of tokens (labels, dots, slashes, a scheme).
EndsWith(s, suffix) ==
  /\ Len(suffix) <= Len(s)
  /\ SubSeq(s, Len(s) - Len(suffix) + 1, Len(s)) = suffix

Includes(s, pat) ==
  \E i \in 1..(Len(s) - Len(pat) + 1) : SubSeq(s, i, i + Len(pat) - 1) = pat

Schemes == {"https://", "http://"}

\* new URL(rawUrl): throws unless the string starts with a scheme and names a host.
UrlParses(rawUrl) ==
  /\ Len(rawUrl) >= 2
  /\ rawUrl[1] \in Schemes
  /\ rawUrl[2] # "/"

\* new URL(rawUrl).hostname: the tokens between the scheme and the first slash.
Hostname(rawUrl) ==
  LET slashes == {i \in 2..Len(rawUrl) : rawUrl[i] = "/"}
      last == IF slashes = {} THEN Len(rawUrl)
              ELSE (CHOOSE i \in slashes : \A j \in slashes : i <= j) - 1
  IN  SubSeq(rawUrl, 2, last)

isAllowedUrlAnyHost(rawUrl) ==
  UrlParses(rawUrl) /\
    \E suffix \in ALLOWED_HOSTS : Includes(rawUrl, SubSeq(suffix, 2, Len(suffix)))

isAllowedUrl(rawUrl) ==
  UrlParses(rawUrl) /\ \E suffix \in ALLOWED_HOSTS : EndsWith(Hostname(rawUrl), suffix)

isThumbnail(rawUrl) ==
  Includes(rawUrl, <<"ytimg", ".", "com">>) \/ Includes(rawUrl, <<"/", "vi", "/">>)

\* The url query parameters the model sends (None: the parameter is missing).
Urls ==
  { None,
    Some(<<"not a url">>),
    Some(<<"https://", "r1", ".", "googlevideo", ".", "com", "/", "videoplayback">>),
    Some(<<"https://", "googlevideo", ".", "com", "/", "videoplayback">>),
    Some(<<"https://", "evil", ".", "com", "/", "r1", ".", "googlevideo", ".", "com">>),
    Some(<<"https://", "r1", ".", "googlevideo", ".", "com", ".", "evil", ".", "com", "/">>),
    Some(<<"https://", "evil", ".", "com", "/", "vi", "/", "x">>),
    Some(<<"https://", "i", ".", "ytimg", ".", "com", "/", "vi", "/", "x">>),
    Some(<<"https://", "www", ".", "youtube", ".", "com", "/", "vi", "/", "x">>) }

\* ---------------------------------------------------------- Range header
\* The header text is  unit "=" first "-" last , first and last being digit
\* strings that may be empty.
RangeOffsets == {None} \cup {Some(n) : n \in 0..MaxRangeOff}
RangeHeaders ==
  {None}
  \cup {Some([unit |-> "bytes", first |-> f, last |-> l]) :
          f \in RangeOffsets, l \in RangeOffsets}
  \cup {Some([unit |-> "items", first |-> Some(0), last |-> Some(1)])}

\* browserRange.match(/bytes=(\d+)-(\d*)/): None, or the two groups.
MatchRange(header) ==
  IF header.unit = "bytes" /\ IsSome(header.first)
  THEN Some([first |-> Val(header.first), last |-> header.last])
  ELSE None

\* ------------------------------------------------------------- the state
VARIABLES
  targetUrl,      \* searchParams.get("url"): None or Some(string)
  browserRange,   \* req.headers.get("range"): None or Some(header)
  upstreamSize,   \* size of the resource the CDN serves
  upstreamCap,    \* most blocks the CDN returns for one ranged request
  pc,             \* where the handler and the stream's start() loop stand
  status,         \* status of the response: None until one is returned
  totalSize,      \* probeStream's totalSize: None (null) or Some(n)
  contentRange,   \* Content-Range of the response: None or Some([first, last, total])
  contentLength,  \* Content-Length of the response: None or Some(n)
  acceptRanges,   \* whether Accept-Ranges: bytes is set
  pos,            \* start(): let pos
  end,            \* start(): const end (None is null, for Infinity)
  attempt,        \* fetchChunk's attempt parameter of the call in flight
  sleepMs,        \* the delay of the sleep in progress
  emitted,        \* source offsets enqueued on the output stream, in order
  requests,       \* chunk requests sent upstream, in order
  netCalls,       \* number of fetch() calls made, of any kind
  cancelled,      \* the caller cancelled the output stream
  hung,           \* the upstream accepted the chunk request and never answers
  lastResponse,   \* how the last settled chunk fetch ended: None or Some(response)
  injected,       \* the upstream answered some chunk request with a failure
  shortServed,    \* the upstream returned fewer blocks than asked for and had
  rangeless,      \* the CDN ignores Range: it answers 200 with the whole resource
  answered,       \* number of chunk fetches that have settled
  queued,         \* chunks enqueued on the output stream and not yet read
  parked          \* the other relay of a dual download while this one runs:
                  \* None, or its state

\* getStreamUrls (src/lib/ytdlp-vercel.js)
VARIABLES
  playerReplies,  \* what /player answers each entry of attempts with
  format,         \* getStreamUrls: format
  quality,        \* getStreamUrls: quality
  rpc,            \* where getStreamUrls stands
  attemptIdx,     \* index in attempts of the entry the for loop is at
  streamData,     \* getStreamUrls: streamData (None is null)
  lastErr,        \* getStreamUrls: lastErr (None is null), the error's message
  playerCalls,    \* client names /player was requested with, in order
  vf,             \* getStreamUrls: vf (None is null, also before it is assigned)
  af,             \* getStreamUrls: af (None is null, also before it is assigned)
  resolved,       \* how the resolution settled: None, or the value or the error
  urlsRaw,        \* stream-url GET: what yt-dlp --get-url printed, as lines
  infoRaw         \* stream-url GET: requested_formats' ext and ext of yt-dlp's JSON

\* getPlaylistInfo (src/lib/ytdlp-vercel.js)
VARIABLES
  cpc,            \* where getPlaylistInfo stands
  data,           \* getPlaylistInfo: data, the page last fetched
  meta,           \* getPlaylistInfo: meta
  all,            \* getPlaylistInfo: all
  usedTokens,     \* getPlaylistInfo: usedTokens
  pages,          \* getPlaylistInfo: pages
  browseCalls,    \* continuation tokens /browse was requested with, in order
  listing,        \* how getPlaylistInfo settled: None, or the value or the error
  served,         \* what /browse answered this call's requests with, in order
  previous        \* an earlier call for the same playlist: None, or what it was
                  \* served and what it returned

\* withRetry (src/lib/ytdlp.js)
VARIABLES
  wpc,            \* where withRetry stands
  retries,        \* withRetry: retries
  delayMs,        \* withRetry: delayMs
  attemptNo,      \* withRetry: attempt
  fnCalls,        \* how each call of fn ended, in order
  waits,          \* the delays withRetry slept, in order
  settled         \* how withRetry settled: None, or the value or the error

\* getFFmpeg (src/app/page.js)
VARIABLES
  ffmpegInstance, \* let ffmpegInstance (None is null)
  ffmpegLoading,  \* let ffmpegLoading
  ffmpegReady,    \* let ffmpegReady
  caller          \* each call of getFFmpeg: where it stands and what it returned

\* GET /api/download (src/app/api/download/route.js)
VARIABLES
  dpc,            \* where the handler and its response stream stand
  dformat,        \* searchParams.get("format") || "mp4"
  dvideoId,       \* searchParams.get("videoId"): None or Some(id)
  safeName,       \* let safeName
  disk,           \* the files of this request's uid in os.tmpdir()
  downloadedAudio,\* const downloadedAudio (None before it is assigned)
  dresponse,      \* the response returned, or None
  fileStream      \* the read stream of the file sent: its size and the chunks read

relayVars ==
  <<targetUrl, browserRange, upstreamSize, upstreamCap, pc, status, totalSize,
    contentRange, contentLength, acceptRanges, pos, end, attempt, sleepMs,
    emitted, requests, netCalls, cancelled, hung, lastResponse, injected,
    shortServed, rangeless, answered, queued, parked>>
resolveVars ==
  <<playerReplies, format, quality, rpc, attemptIdx, streamData, lastErr,
    playerCalls, vf, af, resolved, urlsRaw, infoRaw>>
crawlVars ==
  <<cpc, data, meta, all, usedTokens, pages, browseCalls, listing, served, previous>>

retryVars == <<wpc, retries, delayMs, attemptNo, fnCalls, waits, settled>>
loaderVars == <<ffmpegInstance, ffmpegLoading, ffmpegReady, caller>>
downloadVars ==
  <<dpc, dformat, dvideoId, safeName, disk, downloadedAudio, dresponse, fileStream>>
helperVars == <<retryVars, loaderVars, downloadVars>>

vars == <<relayVars, resolveVars, crawlVars, helperVars>>

inputVars == <<targetUrl, browserRange, upstreamSize, upstreamCap, rangeless>>
headVars == <<status, totalSize, contentRange, contentLength, acceptRanges>>
loopVars == <<pos, end, attempt, sleepMs, emitted, requests>>
envVars == <<cancelled, hung, lastResponse, injected, shortServed, answered>>

Terminal == {"responded", "closed", "errored", "aborted"}

\* A component that is not running: its variables at rest.
ResolveIdle ==
  /\ playerReplies = <<>>
  /\ format = "mp4"
  /\ quality = "highest"
  /\ rpc = "idle"
  /\ attemptIdx = 0
  /\ streamData = None
  /\ lastErr = None
  /\ playerCalls = <<>>
  /\ vf = None
  /\ af = None
  /\ resolved = None
  /\ urlsRaw = None
  /\ infoRaw = None

RetryIdle ==
  /\ wpc = "idle"
  /\ retries = 0
  /\ delayMs = 0
  /\ attemptNo = 0
  /\ fnCalls = <<>>
  /\ waits = <<>>
  /\ settled = None

LoaderIdle ==
  /\ ffmpegInstance = None
  /\ ffmpegLoading = FALSE
  /\ ffmpegReady = FALSE
  /\ caller = <<>>

DownloadIdle ==
  /\ dpc = "idle"
  /\ dformat = "mp4"
  /\ dvideoId = None
  /\ safeName = <<>>
  /\ disk = {}
  /\ downloadedAudio = None
  /\ dresponse = None
  /\ fileStream = None

HelpersIdle == RetryIdle /\ LoaderIdle /\ DownloadIdle

CrawlIdle ==
  /\ cpc = "idle"
  /\ data = None
  /\ meta = None
  /\ all = <<>>
  /\ usedTokens = {}
  /\ pages = 0
  /\ browseCalls = <<>>
  /\ listing = None
  /\ served = <<>>
  /\ previous = None

RelayStart ==
  /\ status = None
  /\ totalSize = None
  /\ contentRange = None
  /\ contentLength = None
  /\ acceptRanges = FALSE
  /\ pos = 0
  /\ end = None
  /\ attempt = 0
  /\ sleepMs = 0
  /\ emitted = <<>>
  /\ requests = <<>>
  /\ netCalls = 0
  /\ cancelled = FALSE
  /\ hung = FALSE
  /\ lastResponse = None
  /\ injected = FALSE
  /\ shortServed = FALSE
  /\ answered = 0
  /\ queued = 0

RelayIdle ==
  /\ targetUrl = None
  /\ browserRange = None
  /\ upstreamSize = 0
  /\ upstreamCap = 1
  /\ rangeless = FALSE
  /\ parked = None
  /\ pc = "idle"
  /\ RelayStart

Init ==
  /\ targetUrl \in Urls
  /\ browserRange \in RangeHeaders
  /\ upstreamSize \in 0..MaxSize
  /\ upstreamCap \in 1..MaxCap
  /\ rangeless = FALSE
  /\ parked = None
  /\ pc = "request"
  /\ RelayStart
  /\ ResolveIdle
  /\ CrawlIdle
  /\ HelpersIdle

\* ----------------------------------------------------------- the upstream
\* What the CDN holds for bytes=s-e: nothing when the range starts past the
\* end or is empty, else the blocks s..e cut to the resource and to the cap;
\* a CDN that ignores Range sends the whole resource whatever s and e.
Satisfiable(s, e) == s < upstreamSize /\ s <= e
UpstreamBody(s, e) ==
  IF rangeless THEN Range(0, upstreamSize - 1)
  ELSE Range(s, Min(Min(e, s + upstreamCap - 1), upstreamSize - 1))

\* Statuses the CDN answers a chunk request with.
ChunkStatuses == {200, 206, 416, 403, 503}
\* How a chunk fetch ends: fetch() rejects (threw), or resolves with a status;
\* the connection may then still break while arrayBuffer() reads the body
\* (bodyThrew).
ChunkResponses ==
  {[threw |-> TRUE, status |-> 0, bodyThrew |-> FALSE]}
  \cup {[threw |-> FALSE, status |-> st, bodyThrew |-> FALSE] : st \in ChunkStatuses}
  \cup {[threw |-> FALSE, status |-> st, bodyThrew |-> TRUE] : st \in {200, 206}}

\* Which of them a CDN can give to bytes=s-e: 206 for a range it holds, from a
\* CDN that honours Range; 200 only from one that ignores it.
Answerable(res, s, e) ==
  /\ res.status = 206 => (~rangeless /\ Satisfiable(s, e))
  /\ res.status = 416 => ~rangeless
  /\ res.status = 200 => rangeless

\* ---------------------------------------------------------------- GET head
\* probeStream: how the bytes=0-0 probe ends, and the totalSize it returns.
ProbeOutcomes == {"content-range", "content-length", "neither", "throws"}
probeStream(outcome, size) ==
  IF outcome \in {"content-range", "content-length"} THEN Some(size) ELSE None

\* null - 1 and null + 1 in JS: null counts as 0.
Num(o) == IF IsSome(o) THEN Val(o) ELSE 0

HonoursRangeAnySize(range, total) == IsSome(range)
HonoursRange(range, total) == IsSome(range) /\ Truthy(total)

\* The window and the headers GET computes once the probe has returned.
ResponseHead(range, total) ==
  LET m == IF HonoursRange(range, total) THEN MatchRange(Val(range)) ELSE None
      isRangeRequest == IsSome(m)
      rangeStart == IF isRangeRequest THEN Val(m).first ELSE 0
      rangeEnd ==
        IF isRangeRequest
        THEN (IF IsSome(Val(m).last) THEN Val(m).last ELSE Some(Num(total) - 1))
        ELSE (IF Truthy(total) THEN Some(Val(total) - 1) ELSE None)
  IN  [ status |-> IF isRangeRequest THEN 206 ELSE 200,
        contentRange |->
          IF isRangeRequest
          THEN Some([first |-> rangeStart, last |-> Val(rangeEnd), total |-> total])
          ELSE None,
        contentLength |->
          IF isRangeRequest THEN Some(Val(rangeEnd) - rangeStart + 1)
          ELSE IF Truthy(total) THEN total ELSE None,
        acceptRanges |-> Truthy(total),
        rangeStart |-> rangeStart,
        rangeEnd |-> rangeEnd ]

\* ------------------------------------------------------------- fetchChunk
RetryAllowedOneMore(att) == att <= MAX_CHUNK_RETRIES
RetryAllowed(att) == att < MAX_CHUNK_RETRIES

Backoff(att) == BACKOFF_MS * att

RangeRejectedNever(st) == FALSE
RangeRejected(st) == st = 416

\* res.ok: a status of 200..299.
Ok(st) == 200 <= st /\ st <= 299

\* What one attempt of fetchChunk does with the answer to its fetch:
\* "retry" (sleep, then call itself with attempt + 1), "throw", "null" or "bytes".
fetchChunk(res, att) ==
  IF res.threw THEN (IF RetryAllowed(att) THEN "retry" ELSE "throw")
  ELSE IF RangeRejected(res.status) THEN "null"
  ELSE IF ~Ok(res.status) /\ res.status # 206
       THEN (IF RetryAllowed(att) /\ res.status >= 500 THEN "retry" ELSE "throw")
  ELSE IF res.bodyThrew THEN "throw"
  ELSE "bytes"

\* The attempt a chunk's first fetchChunk call runs with (the default parameter).
FirstAttemptCarried(prev) == IF prev = 0 THEN 1 ELSE prev
FirstAttempt(prev) == 1

\* ------------------------------------------------------------ start() loop
StartPosZero(rangeStart) == 0
StartPos(rangeStart) == rangeStart

\* pos += chunk.length
AdvanceOffByOne(p, n) == p + n - 1
Advance(p, n) == p + n

ChunkEnd(p, e) ==
  IF IsSome(e) THEN Min(p + CHUNK_SIZE - 1, Val(e)) ELSE p + CHUNK_SIZE - 1

\* The loop's exit test after a chunk of n blocks moved pos to p.
LoopBreaks(p, e, n) == (IsSome(e) /\ p > Val(e)) \/ n < CHUNK_SIZE

ChunkRequest(p, e, att, delay) ==
  [ start |-> p, end |-> ChunkEnd(p, e), attempt |-> att, delay |-> delay,
    afterCancel |-> cancelled ]

\* const chunk = await fetchChunk(targetUrl, pos, chunkEnd): the requests a
\* pass of the loop sends before it waits.
NextRequestsPrefetch(p, e, att) ==
  <<ChunkRequest(p, e, att, 0), ChunkRequest(p + CHUNK_SIZE, e, att, 0)>>
NextRequests(p, e, att) == <<ChunkRequest(p, e, att, 0)>>

\* The stream's queue after a pass of the loop: controller.error empties it,
\* controller.enqueue adds the chunk whatever the queue holds, and a cancelled
\* stream takes nothing.
Queue(n, next, len, isCancelled) ==
  IF next = "throw" THEN 0
  ELSE IF next = "bytes" /\ len > 0 /\ ~isCancelled THEN n + 1
  ELSE n

\* ---------------------------------------------------------------- actions
\* GET, up to its first await: the parameter check, the allow-list check, and
\* the fetch the thumbnail branch or probeStream sends.
GET ==
  /\ pc = "request"
  /\ IF targetUrl = None
     THEN /\ status' = Some(400)
          /\ pc' = "responded"
          /\ UNCHANGED netCalls
     ELSE IF ~isAllowedUrl(Val(targetUrl))
     THEN /\ status' = Some(403)
          /\ pc' = "responded"
          /\ UNCHANGED netCalls
     ELSE /\ pc' = IF isThumbnail(Val(targetUrl)) THEN "thumb" ELSE "probe"
          /\ netCalls' = netCalls + 1
          /\ UNCHANGED status
  /\ UNCHANGED <<resolveVars, crawlVars, helperVars, parked, queued, inputVars, totalSize, contentRange, contentLength, acceptRanges,
                 loopVars, envVars>>

\* The thumbnail branch once its fetch has settled.
ThumbnailResponse ==
  /\ pc = "thumb"
  /\ \E upstream \in {200, 404, 0} :
       status' = Some(IF upstream = 0 THEN 500 ELSE upstream)
  /\ pc' = "responded"
  /\ UNCHANGED <<resolveVars, crawlVars, helperVars, parked, queued, inputVars, totalSize, contentRange, contentLength, acceptRanges,
                 loopVars, netCalls, envVars>>

\* GET from the probe's answer to the return of the Response: the headers, and
\* start() up to the first chunk's fetch.
ProbeResponse ==
  /\ pc = "probe"
  /\ \E outcome \in ProbeOutcomes \ (IF rangeless THEN {"content-range"} ELSE {}) :
       LET total == probeStream(outcome, upstreamSize)
           head == ResponseHead(browserRange, total)
           p == StartPos(head.rangeStart)
           att == FirstAttempt(attempt)
       IN  /\ totalSize' = total
           /\ status' = Some(head.status)
           /\ contentRange' = head.contentRange
           /\ contentLength' = head.contentLength
           /\ acceptRanges' = head.acceptRanges
           /\ pos' = p
           /\ end' = head.rangeEnd
           /\ attempt' = att
           /\ requests' = NextRequests(p, head.rangeEnd, att)
  /\ netCalls' = netCalls + 1
  /\ pc' = "fetch"
  /\ UNCHANGED <<resolveVars, crawlVars, helperVars, parked, queued, inputVars, sleepMs, emitted, envVars>>

\* The answer to the chunk fetch in flight, and the loop up to its next await.
ChunkResponse ==
  /\ pc = "fetch"
  /\ ~hung
  /\ Len(emitted) <= MaxEmitted
  /\ \E res \in ChunkResponses :
       LET chunkEnd == ChunkEnd(pos, end)
           next == fetchChunk(res, attempt)
           chunk == UpstreamBody(pos, chunkEnd)
           p == Advance(pos, Len(chunk))
           att == FirstAttempt(attempt)
       IN  /\ Answerable(res, pos, chunkEnd)
           /\ lastResponse' = Some(res)
           /\ answered' = answered + 1
           /\ queued' = Queue(queued, next, Len(chunk), cancelled)
           /\ injected' = (injected \/ res.threw \/ res.bodyThrew \/ res.status \in {403, 503}
                             \/ (res.status = 416 /\ Satisfiable(pos, chunkEnd)))
           /\ CASE next = "retry" ->
                     /\ pc' = "sleep"
                     /\ sleepMs' = Backoff(attempt)
                     /\ UNCHANGED <<pos, attempt, emitted, requests, netCalls, shortServed>>
                [] next = "throw" ->
                     /\ pc' = IF cancelled THEN "aborted" ELSE "errored"
                     /\ UNCHANGED <<pos, attempt, sleepMs, emitted, requests, netCalls,
                                    shortServed>>
                [] next = "null" ->
                     /\ pc' = IF cancelled THEN "aborted" ELSE "closed"
                     /\ UNCHANGED <<pos, attempt, sleepMs, emitted, requests, netCalls,
                                    shortServed>>
                [] next = "bytes" ->
                     /\ shortServed' =
                          (shortServed \/
                             Len(chunk) < Min(chunkEnd, upstreamSize - 1) - pos + 1)
                     /\ IF Len(chunk) = 0
                        THEN /\ pc' = IF cancelled THEN "aborted" ELSE "closed"
                             /\ UNCHANGED <<pos, attempt, emitted, requests, netCalls>>
                        ELSE IF cancelled
                        THEN /\ pc' = "aborted"
                             /\ UNCHANGED <<pos, attempt, emitted, requests, netCalls>>
                        ELSE /\ emitted' = emitted \o chunk
                             /\ pos' = p
                             /\ IF LoopBreaks(p, end, Len(chunk))
                                THEN /\ pc' = "closed"
                                     /\ UNCHANGED <<attempt, requests, netCalls>>
                                ELSE /\ pc' = "fetch"
                                     /\ attempt' = att
                                     /\ requests' = requests \o NextRequests(p, end, att)
                                     /\ netCalls' = netCalls + 1
                     /\ UNCHANGED sleepMs
  /\ UNCHANGED <<resolveVars, crawlVars, helperVars, parked, inputVars, headVars, end, cancelled, hung>>

\* The end of fetchChunk's sleep: the recursive call with attempt + 1.
SleepDone ==
  /\ pc = "sleep"
  /\ attempt' = attempt + 1
  /\ requests' = Append(requests, ChunkRequest(pos, end, attempt + 1, sleepMs))
  /\ netCalls' = netCalls + 1
  /\ pc' = "fetch"
  /\ UNCHANGED <<resolveVars, crawlVars, helperVars, parked, queued, inputVars, headVars, pos, end, sleepMs, emitted, envVars>>

\* The caller closes its connection: the output stream is cancelled. The
\* stream has no cancel callback and fetch is given no signal, so the loop
\* learns of it only when enqueue, close or error is called.
Cancel ==
  /\ pc \in {"fetch", "sleep"}
  /\ ~cancelled
  /\ cancelled' = TRUE
  /\ queued' = 0
  /\ UNCHANGED <<resolveVars, crawlVars, helperVars, parked, inputVars, pc, headVars, loopVars, netCalls, hung, lastResponse,
                 injected, shortServed, answered>>

\* The upstream accepts the chunk request and never answers it.
Hang ==
  /\ pc = "fetch"
  /\ ~hung
  /\ hung' = TRUE
  /\ UNCHANGED <<resolveVars, crawlVars, helperVars, parked, queued, inputVars, pc, headVars, loopVars, netCalls, cancelled, lastResponse,
                 injected, shortServed, answered>>

Next ==
  \/ GET
  \/ ThumbnailResponse
  \/ ProbeResponse
  \/ ChunkResponse
  \/ SleepDone
  \/ Cancel
  \/ Hang

Spec == Init /\ [][Next]_vars

\* The handler's own steps are taken whenever they can be; the upstream's
\* choice never to answer is the state hung, in which none is enabled.
FairSpec == Spec /\ WF_vars(Next)

\* The relay in front of a CDN that ignores Range: every request, the probe
\* included, is answered 200 with the whole resource (or fails).
InitOpaque ==
  /\ targetUrl \in Urls
  /\ browserRange \in RangeHeaders
  /\ upstreamSize \in 0..MaxSize
  /\ upstreamCap = 1
  /\ rangeless = TRUE
  /\ parked = None
  /\ pc = "request"
  /\ RelayStart
  /\ ResolveIdle
  /\ CrawlIdle
  /\ HelpersIdle

OpaqueSpec == InitOpaque /\ [][Next]_vars

\* The relay with the caller's reads made visible: reader.read() takes the
\* oldest chunk off the stream's queue, when the caller gets round to it.
Read ==
  /\ pc \in {"fetch", "sleep", "closed"}
  /\ ~cancelled
  /\ queued > 0
  /\ queued' = queued - 1
  /\ UNCHANGED <<resolveVars, crawlVars, helperVars, parked, inputVars, pc, headVars, loopVars,
                 netCalls, envVars>>

InitSlow ==
  /\ targetUrl = Some(<<"https://", "r1", ".", "googlevideo", ".", "com", "/", "videoplayback">>)
  /\ browserRange = None
  /\ upstreamSize \in 0..MaxSize
  /\ upstreamCap \in 1..MaxCap
  /\ rangeless = FALSE
  /\ parked = None
  /\ pc = "request"
  /\ RelayStart
  /\ ResolveIdle
  /\ CrawlIdle
  /\ HelpersIdle

NextSlow ==
  \/ GET
  \/ ProbeResponse
  \/ ChunkResponse
  \/ SleepDone
  \/ Cancel
  \/ Hang
  \/ Read

SlowCallerSpec == InitSlow /\ [][NextSlow]_vars

\* ------------------------------------------------ the two legs of a download
\* deviceModeMP4 (src/app/page.js) starts fetchViaCorsProxy(videoUrl) and
\* fetchViaCorsProxy(audioUrl) under Promise.all: two GET /api/proxy requests
\* whose handlers take turns on the event loop.  One leg runs in the relay's
\* variables while the other is parked; Switch hands the turn over.
Legs == {"video", "audio"}
Other(leg) == IF leg = "video" THEN "audio" ELSE "video"

\* Everything one GET holds: its request, its upstream, its locals and its
\* output stream.
LegState ==
  [ targetUrl |-> targetUrl,
    browserRange |-> browserRange,
    upstreamSize |-> upstreamSize,
    upstreamCap |-> upstreamCap,
    rangeless |-> rangeless,
    pc |-> pc,
    status |-> status,
    totalSize |-> totalSize,
    contentRange |-> contentRange,
    contentLength |-> contentLength,
    acceptRanges |-> acceptRanges,
    pos |-> pos,
    end |-> end,
    attempt |-> attempt,
    sleepMs |-> sleepMs,
    emitted |-> emitted,
    requests |-> requests,
    netCalls |-> netCalls,
    cancelled |-> cancelled,
    hung |-> hung,
    lastResponse |-> lastResponse,
    injected |-> injected,
    shortServed |-> shortServed,
    answered |-> answered,
    queued |-> queued ]

\* A GET /api/proxy?url=... as fetchViaCorsProxy sends it: no Range header.
LegStart(url, size, cap) ==
  [ targetUrl |-> url,
    browserRange |-> None,
    upstreamSize |-> size,
    upstreamCap |-> cap,
    rangeless |-> FALSE,
    pc |-> "request",
    status |-> None,
    totalSize |-> None,
    contentRange |-> None,
    contentLength |-> None,
    acceptRanges |-> FALSE,
    pos |-> 0,
    end |-> None,
    attempt |-> 0,
    sleepMs |-> 0,
    emitted |-> <<>>,
    requests |-> <<>>,
    netCalls |-> 0,
    cancelled |-> FALSE,
    hung |-> FALSE,
    lastResponse |-> None,
    injected |-> FALSE,
    shortServed |-> FALSE,
    answered |-> 0,
    queued |-> 0 ]

UrlVideo == Some(<<"https://", "r1", ".", "googlevideo", ".", "com", "/", "videoplayback">>)
UrlAudio == Some(<<"https://", "r2", ".", "googlevideo", ".", "com", "/", "videoplayback">>)
DualCaps == {CHUNK_SIZE - 1, CHUNK_SIZE}

\* let pos, const end, the attempt and the stream are locals of one GET call:
\* a handler that takes its turn again finds them as it left them.
OwnLocalsSharedPos(saved, current) == [saved EXCEPT !.pos = current.pos]
OwnLocals(saved, current) == saved

Running == Other(Val(parked).leg)

Switch ==
  /\ IsSome(parked)
  /\ LET saved == OwnLocals(Val(parked).st, LegState)
     IN
       /\ parked' = Some([leg |-> Running, st |-> LegState])
       /\ targetUrl' = saved.targetUrl
       /\ browserRange' = saved.browserRange
       /\ upstreamSize' = saved.upstreamSize
       /\ upstreamCap' = saved.upstreamCap
       /\ rangeless' = saved.rangeless
       /\ pc' = saved.pc
       /\ status' = saved.status
       /\ totalSize' = saved.totalSize
       /\ contentRange' = saved.contentRange
       /\ contentLength' = saved.contentLength
       /\ acceptRanges' = saved.acceptRanges
       /\ pos' = saved.pos
       /\ end' = saved.end
       /\ attempt' = saved.attempt
       /\ sleepMs' = saved.sleepMs
       /\ emitted' = saved.emitted
       /\ requests' = saved.requests
       /\ netCalls' = saved.netCalls
       /\ cancelled' = saved.cancelled
       /\ hung' = saved.hung
       /\ lastResponse' = saved.lastResponse
       /\ injected' = saved.injected
       /\ shortServed' = saved.shortServed
       /\ answered' = saved.answered
       /\ queued' = saved.queued
  /\ UNCHANGED <<resolveVars, crawlVars, helperVars>>

InitDual ==
  /\ targetUrl = UrlVideo
  /\ browserRange = None
  /\ upstreamSize = CHUNK_SIZE + 2
  /\ upstreamCap \in DualCaps
  /\ rangeless = FALSE
  /\ pc = "request"
  /\ RelayStart
  /\ parked \in {Some([leg |-> "audio", st |-> LegStart(UrlAudio, CHUNK_SIZE - 1, cap)]) :
                   cap \in DualCaps}
  /\ ResolveIdle
  /\ CrawlIdle
  /\ HelpersIdle

NextDual ==
  \/ GET
  \/ ProbeResponse
  \/ ChunkResponse
  \/ SleepDone
  \/ Cancel
  \/ Hang
  \/ Switch

DualSpec == InitDual /\ [][NextDual]_vars

\* ------------------------------------------------------------------ claims
UrlMalformed == Some(<<"not a url">>)
UrlBareDomain == Some(<<"https://", "googlevideo", ".", "com", "/", "videoplayback">>)
UrlHostInPath ==
  Some(<<"https://", "evil", ".", "com", "/", "r1", ".", "googlevideo", ".", "com">>)
UrlSuffixSpoof ==
  Some(<<"https://", "r1", ".", "googlevideo", ".", "com", ".", "evil", ".", "com", "/">>)
UrlForeignThumb == Some(<<"https://", "evil", ".", "com", "/", "vi", "/", "x">>)
DisallowedTargets ==
  {UrlMalformed, UrlBareDomain, UrlHostInPath, UrlSuffixSpoof, UrlForeignThumb}

Streaming == pc \in {"fetch", "sleep", "closed", "errored", "aborted"}
LastRequest == requests[Len(requests)]
Transient(res) == res.threw \/ res.status >= 500
LastWasTransient == IsSome(lastResponse) /\ Transient(Val(lastResponse))
LastWas416 == IsSome(lastResponse) /\ Val(lastResponse).status = 416

\* C1: a target whose hostname is not on the CDN allow-list, or that does not
\* parse as a URL, causes no upstream call at all: no probe, no chunk request,
\* and once answered the answer is 403 and nothing follows it.
C1_DisallowedHostNoNetworkCall ==
  targetUrl \in DisallowedTargets =>
    /\ netCalls = 0
    /\ requests = <<>>
    /\ pc \in {"request", "responded"}
    /\ (pc = "responded" => status = Some(403))

C1_Witness ==
  /\ targetUrl = UrlHostInPath
  /\ pc = "responded"
  /\ status = Some(403)
  /\ netCalls = 0

\* C2: against an upstream that serves its N-block resource in ranged answers
\* of at most upstreamCap blocks and never fails, a relay with no caller Range
\* that has closed its stream has emitted exactly the N source blocks, in order.
C2_FullRelayIsByteIdentical ==
  (pc = "closed" /\ browserRange = None /\ ~injected) =>
    emitted = Range(0, upstreamSize - 1)

\* C3: when the K-th chunk request is answered 416, the stream is closed (not
\* errored), what was emitted is exactly the blocks of chunks 1..K-1, and the
\* rejected request is the last one sent: it is not retried and no chunk follows.
C3_RangeRejectedEndsCleanly ==
  LastWas416 =>
    /\ pc = (IF cancelled THEN "aborted" ELSE "closed")
    /\ LastRequest.start = pos
    /\ emitted = Range(requests[1].start, pos - 1)
    /\ Cardinality({i \in 1..Len(requests) : requests[i].start = pos}) = attempt

C3_Witness ==
  /\ LastWas416
  /\ pc = "closed"
  /\ Len(emitted) >= CHUNK_SIZE
  /\ pos < upstreamSize

\* The caller's header is bytes=a-b with both numbers given.
ClosedRange ==
  /\ IsSome(browserRange)
  /\ Val(browserRange).unit = "bytes"
  /\ IsSome(Val(browserRange).first)
  /\ IsSome(Val(browserRange).last)
RangeFirst == Val(Val(browserRange).first)
RangeLast == Val(Val(browserRange).last)
SizeKnown == totalSize = Some(upstreamSize) /\ upstreamSize > 0

C5_WindowIsIntersection ==
  IsSome(contentRange) =>
    LET cr == Val(contentRange)
    IN  /\ 0 <= cr.first
        /\ cr.first <= cr.last
        /\ cr.last <= Num(cr.total) - 1
        /\ contentLength = Some(cr.last - cr.first + 1)
        /\ Val(contentLength) <= Num(cr.total) - cr.first

\* C6: when the probe returns no usable total size, the caller's Range is
\* ignored: status 200, no Content-Range, and the first chunk request starts
\* at offset 0.
C6_UnknownSizeIgnoresRange ==
  (Streaming /\ ~Truthy(totalSize)) =>
    /\ status = Some(200)
    /\ contentRange = None
    /\ requests[1].start = 0
    /\ end = None

C6_Witness ==
  /\ pc = "closed"
  /\ totalSize = None
  /\ ClosedRange
  /\ RangeFirst = 2
  /\ RangeLast = 3
  /\ Len(emitted) > CHUNK_SIZE
  /\ emitted[1] = 0

C8_RetryBudgetIsPerChunk ==
  /\ \A i \in 1..Len(requests) :
       (i = 1 \/ requests[i - 1].start # requests[i].start) => requests[i].attempt = 1
  /\ (pc = "errored" /\ LastWasTransient) =>
       Cardinality({i \in 1..Len(requests) : requests[i].start = pos})
         = MAX_CHUNK_RETRIES

C8_Witness ==
  /\ pc = "closed"
  /\ browserRange = None
  /\ emitted = Range(0, upstreamSize - 1)
  /\ Cardinality({i \in 1..Len(requests) : requests[i].attempt > 1})
       > MAX_CHUNK_RETRIES

\* C9: once the caller has cancelled the output stream, no chunk request is
\* sent upstream, neither a new chunk's nor a retry.
C9_NoFetchAfterCancel ==
  \A i \in 1..Len(requests) : ~requests[i].afterCancel

\* C10: a chunk request the upstream never answers is ended by a timeout, so
\* the relay goes on to close or error its stream.
C10_HungFetchEventuallyEnds == hung ~> (pc \in Terminal)

RECURSIVE SoloBody(_, _, _, _)
SoloBody(p, size, cap, e) ==
  LET chunk == Range(p, Min(Min(ChunkEnd(p, e), p + cap - 1), size - 1))
      q == p + Len(chunk)
  IN  IF Len(chunk) = 0 THEN <<>>
      ELSE IF LoopBreaks(q, e, Len(chunk)) THEN chunk
      ELSE chunk \o SoloBody(q, size, cap, e)

IsPrefix(a, b) == Len(a) <= Len(b) /\ a = SubSeq(b, 1, Len(a))
LegOf(leg) == IF leg = Running THEN LegState ELSE Val(parked).st
Started(st) == st.pc \in {"fetch", "sleep", "closed", "errored", "aborted"}

\* C25: under every interleaving of the two legs of a dual download, what a
\* leg has emitted is a prefix of what it emits alone, a leg that closed
\* without a failure of its own upstream has emitted all of it, and a leg
\* errors only on a failure of its own upstream: the other leg's failures,
\* retries and cancellation change nothing of it.
C25_LegsEmitAsAlone ==
  IsSome(parked) =>
    \A leg \in Legs :
      LET st == LegOf(leg)
          alone == SoloBody(0, st.upstreamSize, st.upstreamCap, st.end)
      IN  Started(st) =>
            /\ IsPrefix(st.emitted, alone)
            /\ (st.pc = "closed" /\ ~st.injected) => st.emitted = alone
            /\ st.pc = "errored" => st.injected
            /\ \A i \in 1..Len(st.requests) : st.requests[i].start <= Len(st.emitted)

C25_Witness ==
  /\ IsSome(parked)
  /\ LegOf("video").pc = "errored"
  /\ Len(LegOf("video").emitted) = CHUNK_SIZE
  /\ LegOf("video").attempt = MAX_CHUNK_RETRIES
  /\ LegOf("audio").pc = "closed"
  /\ ~LegOf("audio").injected
  /\ LegOf("audio").emitted = Range(0, CHUNK_SIZE - 2)
  /\ LegOf("video").answered > LegOf("audio").answered

\* A connection reset: fetch() rejects before a response, or the connection
\* breaks while the body is read.
Reset(res) == res.threw \/ res.bodyThrew

\* C26: a chunk fetch that ends in a connection reset, before the response
\* arrives or while its body is read, is retried while the retry budget lasts,
\* and the failed attempt emits nothing.
C26_ResetIsRetried ==
  [][(pc = "fetch" /\ answered' = answered + 1 /\ Reset(Val(lastResponse')))
       => /\ emitted' = emitted
          /\ attempt < MAX_CHUNK_RETRIES => pc' = "sleep"]_vars

\* C27: in front of an upstream that answers every ranged request with the
\* whole body, the relay emits that body exactly once and closes, whatever the
\* size of the body and whether or not the probe discovered the total.
C27_WholeBodyEmittedOnce ==
  (rangeless /\ Streaming) =>
    /\ Len(emitted) <= upstreamSize
    /\ (pc = "closed" /\ ~injected) => emitted = Range(0, upstreamSize - 1)

\* Chunk requests sent upstream and not yet settled.
InFlight == Len(requests) - answered

\* C30: a relay has at most one upstream chunk request in flight: exactly one
\* while it waits for a chunk and none otherwise, so the next chunk and a
\* retry are requested only after the request before them has settled.
C30_OneRequestInFlight ==
  /\ InFlight = (IF pc = "fetch" THEN 1 ELSE 0)
  /\ \A i \in 2..Len(requests) :
       \/ requests[i].start > requests[i - 1].start
       \/ requests[i].attempt = requests[i - 1].attempt + 1

C30_Witness ==
  /\ pc = "fetch"
  /\ answered >= 3
  /\ InFlight = 1
  /\ Len(emitted) >= CHUNK_SIZE
  /\ \E i \in 1..Len(requests) : requests[i].attempt > 1
  /\ LastRequest.attempt = 1

\* ======================================================================
\* getStreamUrls and the format selection (src/lib/ytdlp-vercel.js), and the
\* result of GET /api/stream-url (src/app/api/stream-url/route.js).
\* ======================================================================
MaxAdaptive == 3      \* most descriptors in streamingData.adaptiveFormats

\* The client names of the entries of attempts, in the order of the array.
attempts == <<"IOS", "ANDROID", "TVHTML5">>

\* ---------------------------------------------------------- descriptors
\* A mimeType is a sequence of tokens: type "/", subtype, ";", codec.
MimeAvc1 == <<"video/", "mp4", ";", "avc1">>
MimeVp9 == <<"video/", "webm", ";", "vp9">>
MimeM4a == <<"audio/", "mp4", ";", "mp4a">>
MimeOpus == <<"audio/", "webm", ";", "opus">>
MimeCombined == <<"video/", "mp4", ";", "avc1", "mp4a">>

\* A format of streamingData as client is served it; its url names client and itag.
Desc(client, itag, mime, height, bitrate, hasUrl) ==
  [ itag |-> itag,
    url |-> IF hasUrl THEN Some(<<client, itag>>) ELSE None,
    mimeType |-> mime,
    height |-> height,
    bitrate |-> bitrate ]

AdaptiveDescriptors(client) ==
  { Desc(client, 1, Some(MimeAvc1), Some(240), None, TRUE),
    Desc(client, 2, Some(MimeAvc1), Some(720), None, TRUE),
    Desc(client, 3, Some(MimeAvc1), Some(2160), None, TRUE),
    Desc(client, 4, Some(MimeAvc1), Some(720), None, FALSE),
    Desc(client, 6, Some(MimeVp9), Some(720), None, TRUE),
    Desc(client, 7, Some(MimeVp9), None, None, TRUE),
    Desc(client, 8, Some(MimeM4a), None, Some(128), TRUE),
    Desc(client, 9, Some(MimeM4a), None, Some(256), TRUE),
    Desc(client, 10, Some(MimeM4a), None, Some(256), FALSE),
    Desc(client, 11, Some(MimeOpus), None, Some(320), TRUE),
    Desc(client, 12, Some(MimeOpus), None, Some(128), TRUE) }

CombinedLists(client) ==
  LET c240 == Desc(client, 21, Some(MimeCombined), Some(240), None, TRUE)
      c720 == Desc(client, 22, Some(MimeCombined), Some(720), None, TRUE)
      c2160 == Desc(client, 23, Some(MimeCombined), Some(2160), None, TRUE)
      cNoUrl == Desc(client, 24, Some(MimeCombined), Some(720), None, FALSE)
  IN  { <<>>, <<c720>>, <<c240, c720>>, <<cNoUrl, c240>>, <<c2160, cNoUrl>> }

SeqsUpTo(S, n) == UNION {[1..k -> S] : k \in 0..n}

Formats == {"mp4", "mp3"}
Qualities == {"highest", "360p", "lowest", "1440p"}

\* ------------------------------------------------------------- selection
\* HEIGHT_MAP[quality]: None when quality is no key of the table.
HEIGHT_MAP(q) ==
  CASE q = "highest" -> Some(1080)
    [] q = "1080p" -> Some(1080)
    [] q = "720p" -> Some(720)
    [] q = "480p" -> Some(480)
    [] q = "360p" -> Some(360)
    [] q = "lowest" -> Some(144)
    [] OTHER -> None

\* HEIGHT_MAP[quality] || 1080
MaxH(q) == IF Truthy(HEIGHT_MAP(q)) THEN Val(HEIGHT_MAP(q)) ELSE 1080

\* f.mimeType?.includes(pat) and f.mimeType?.startsWith(first)
MimeIncludes(f, pat) == IsSome(f.mimeType) /\ Includes(Val(f.mimeType), pat)
MimeStartsWith(f, first) == IsSome(f.mimeType) /\ Val(f.mimeType)[1] = first

mimeExt(mime) == IF IsSome(mime) /\ Includes(Val(mime), <<"webm">>) THEN "webm" ELSE "mp4"

\* (f[field] || 0)
Key(f, field) == Num(f[field])

\* Array.prototype.sort((a, b) => (b[field] || 0) - (a[field] || 0)): a stable
\* sort, greatest first.
InsertDescLatestFirst(sorted, x, field) ==
  LET k == Cardinality({i \in 1..Len(sorted) : Key(sorted[i], field) > Key(x, field)})
  IN  SubSeq(sorted, 1, k) \o <<x>> \o SubSeq(sorted, k + 1, Len(sorted))
InsertDesc(sorted, x, field) ==
  LET k == Cardinality({i \in 1..Len(sorted) : Key(sorted[i], field) >= Key(x, field)})
  IN  SubSeq(sorted, 1, k) \o <<x>> \o SubSeq(sorted, k + 1, Len(sorted))

RECURSIVE SortDesc(_, _)
SortDesc(s, field) ==
  IF Len(s) = 0 THEN s
  ELSE InsertDesc(SortDesc(SubSeq(s, 1, Len(s) - 1), field), s[Len(s)], field)

\* sorted[0] ?? null
Head0(sorted) == IF Len(sorted) = 0 THEN None ELSE Some(sorted[1])

IsH264(f, maxH) ==
  IsSome(f.url) /\ MimeIncludes(f, <<"avc1">>) /\ Key(f, "height") <= maxH
IsAnyVideoUncapped(f, maxH) == IsSome(f.url) /\ MimeStartsWith(f, "video/")
IsAnyVideo(f, maxH) ==
  IsSome(f.url) /\ MimeStartsWith(f, "video/") /\ Key(f, "height") <= maxH

pickVideoAnyCodec(formats, maxH) ==
  Head0(SortDesc(SelectSeq(formats, LAMBDA f : IsAnyVideo(f, maxH)), "height"))

pickVideo(formats, maxH) ==
  LET h264 == SortDesc(SelectSeq(formats, LAMBDA f : IsH264(f, maxH)), "height")
  IN  IF Len(h264) > 0 THEN Some(h264[1])
      ELSE Head0(SortDesc(SelectSeq(formats, LAMBDA f : IsAnyVideo(f, maxH)), "height"))

IsM4a(f) == IsSome(f.url) /\ MimeIncludes(f, <<"audio/", "mp4">>)
IsAnyAudio(f) == IsSome(f.url) /\ MimeStartsWith(f, "audio/")

pickAudioAnyContainer(formats) ==
  Head0(SortDesc(SelectSeq(formats, LAMBDA f : IsAnyAudio(f)), "bitrate"))

pickAudio(formats) ==
  LET m4a == SortDesc(SelectSeq(formats, LAMBDA f : IsM4a(f)), "bitrate")
  IN  IF Len(m4a) > 0 THEN Some(m4a[1])
      ELSE Head0(SortDesc(SelectSeq(formats, LAMBDA f : IsAnyAudio(f)), "bitrate"))

\* af?.url, vf?.url, cf?.url
UrlOf(d) == IF IsSome(d) THEN Val(d).url ELSE None

ExtOf(d) == IF IsSome(d) THEN mimeExt(Val(d).mimeType) ELSE "mp4"

\* What getStreamUrls settles with: a returned object, or a thrown error.
Returned(streamType, url, videoUrl, audioUrl, videoExt, audioExt) ==
  [ ok |-> TRUE, error |-> None, streamType |-> streamType, url |-> url,
    videoUrl |-> videoUrl, audioUrl |-> audioUrl,
    videoExt |-> videoExt, audioExt |-> audioExt ]
Thrown(message) ==
  [ ok |-> FALSE, error |-> message, streamType |-> "", url |-> None,
    videoUrl |-> None, audioUrl |-> None, videoExt |-> "", audioExt |-> "" ]

\* if (vf?.url && af?.url)
HasPairEither(v, a) == IsSome(UrlOf(v)) \/ IsSome(UrlOf(a))
HasPair(v, a) == IsSome(UrlOf(v)) /\ IsSome(UrlOf(a))

\* combined.filter((f) => f.url && (f.height || 0) <= maxH)
IsCombinedFitUncapped(f, maxH) == IsSome(f.url)
IsCombinedFit(f, maxH) == IsSome(f.url) /\ Key(f, "height") <= maxH

\* const vf = pickVideo(adaptive, maxH), where the mp4 branch is reached.
PickedVideo(sd, fmt, q) ==
  IF IsSome(sd) /\ fmt # "mp3" THEN pickVideo(Val(sd).adaptive, MaxH(q)) ELSE None

\* const af = pickAudio(adaptive), in either branch.
PickedAudio(sd) == IF IsSome(sd) THEN pickAudio(Val(sd).adaptive) ELSE None

\* combined.filter(...).sort(...)[0]
PickedCombined(sd, q) ==
  Head0(SortDesc(SelectSeq(Val(sd).combined, LAMBDA f : IsCombinedFit(f, MaxH(q))),
                 "height"))

\* getStreamUrls from the end of the for loop: the throw for no client, then
\* the mp3 branch, the video+audio pair, the combined fallback, the last throw.
SelectStreams(sd, err, fmt, q) ==
  IF ~IsSome(sd)
  THEN Thrown(IF IsSome(err) THEN Val(err) ELSE <<"All stream clients failed">>)
  ELSE
    LET video == PickedVideo(sd, fmt, q)
        audio == PickedAudio(sd)
        cf == PickedCombined(sd, q)
    IN  IF fmt = "mp3"
        THEN IF ~IsSome(UrlOf(audio)) THEN Thrown(<<"No audio stream URL found">>)
             ELSE Returned("single", UrlOf(audio), None, None, ExtOf(audio), ExtOf(audio))
        ELSE IF HasPair(video, audio)
        THEN Returned("dual", None, UrlOf(video), UrlOf(audio), ExtOf(video), ExtOf(audio))
        ELSE IF IsSome(UrlOf(cf))
        THEN Returned("single", UrlOf(cf), None, None, ExtOf(cf), ExtOf(cf))
        ELSE Thrown(<<"No stream URLs found">>)

\* ------------------------------------------------------ the /player replies
\* A reply of innertubePost("player", ...): the call threw (fetch failed, or
\* the status was not ok), or it returned a body with these parts.
ThrownReply(message) ==
  [ threw |-> TRUE, error |-> message, status |-> None, reason |-> None,
    adaptive |-> <<>>, combined |-> <<>> ]
BodyReply(playability, reason, adaptive, combined) ==
  [ threw |-> FALSE, error |-> <<>>, status |-> playability, reason |-> reason,
    adaptive |-> adaptive, combined |-> combined ]

\* The streamingData the model's upstream holds for a video, as client is served it.
StreamSamples == {"pair", "combined-only", "video-only"}
SampleAdaptive(sample, client) ==
  CASE sample = "pair" ->
         << Desc(client, 6, Some(MimeVp9), Some(720), None, TRUE),
            Desc(client, 1, Some(MimeAvc1), Some(240), None, TRUE),
            Desc(client, 9, Some(MimeM4a), None, Some(256), TRUE) >>
    [] sample = "combined-only" -> <<>>
    [] OTHER -> << Desc(client, 6, Some(MimeVp9), Some(720), None, TRUE) >>
SampleCombined(sample, client) ==
  CASE sample = "pair" -> << Desc(client, 22, Some(MimeCombined), Some(720), None, TRUE) >>
    [] sample = "combined-only" ->
         << Desc(client, 21, Some(MimeCombined), Some(240), None, TRUE),
            Desc(client, 22, Some(MimeCombined), Some(720), None, TRUE) >>
    [] OTHER -> <<>>

\* The same formats with their url left out (ciphered formats).
StripUrls(formats) == [i \in 1..Len(formats) |-> [formats[i] EXCEPT !.url = None]]

SignIn == <<"Sign in to confirm you are not a bot">>
ReplyKinds ==
  { "fetch-failed", "http-403", "ok", "content-check", "ok-no-url",
    "login-required", "unplayable-no-url", "no-status" }
PlayerReply(kind, sample, client) ==
  LET a == SampleAdaptive(sample, client)
      c == SampleCombined(sample, client)
  IN  CASE kind = "fetch-failed" -> ThrownReply(<<"fetch failed">>)
        [] kind = "http-403" -> ThrownReply(<<"Innertube /player HTTP 403">>)
        [] kind = "ok" -> BodyReply(Some("OK"), None, a, c)
        [] kind = "content-check" -> BodyReply(Some("CONTENT_CHECK_REQUIRED"), None, a, c)
        [] kind = "ok-no-url" -> BodyReply(Some("OK"), None, StripUrls(a), StripUrls(c))
        [] kind = "login-required" -> BodyReply(Some("LOGIN_REQUIRED"), Some(SignIn), a, c)
        [] kind = "unplayable-no-url" -> BodyReply(Some("UNPLAYABLE"), None, <<>>, <<>>)
        [] OTHER -> BodyReply(None, None, a, c)

\* ------------------------------------------------------------ the for loop
\* [...adaptive, ...combined].some((f) => !!f.url)
hasUrls(res) ==
  {i \in 1..Len(res.adaptive \o res.combined) :
     IsSome((res.adaptive \o res.combined)[i].url)} # {}

\* if (hasUrls && (status === "OK" || status === "CONTENT_CHECK_REQUIRED"))
AcceptsOnStatus(res) ==
  /\ ~res.threw
  /\ res.status \in {Some("OK"), Some("CONTENT_CHECK_REQUIRED")}
Accepts(res) ==
  /\ ~res.threw
  /\ hasUrls(res)
  /\ res.status \in {Some("OK"), Some("CONTENT_CHECK_REQUIRED")}

\* The message of the error a rejected entry leaves in lastErr.
RejectionOf(res, client) ==
  IF res.threw THEN res.error
  ELSE IF IsSome(res.reason) THEN Val(res.reason)
  ELSE <<client, ": ">> \o (IF IsSome(res.status) THEN res.status ELSE <<"undefined">>)

NextLastErrKeepFirst(prev, message) == IF IsSome(prev) THEN prev ELSE Some(message)
NextLastErr(prev, message) == Some(message)

\* The entry the loop goes to after a rejected one.
NextAttemptRetryThrown(i, threw) == IF threw THEN i ELSE i + 1
NextAttempt(i, threw) == i + 1

\* The break after streamData = res.
BreakOnAcceptNever == FALSE
BreakOnAccept == TRUE

\* One pass of the for loop: the request to /player as one client and what
\* the loop does with the reply.
TryClient ==
  /\ rpc = "loop"
  /\ attemptIdx \in 1..Len(attempts)
  /\ LET client == attempts[attemptIdx]
         res == playerReplies[attemptIdx]
         accepted == Accepts(res)
         message == RejectionOf(res, client)
         nextIdx == IF accepted THEN attemptIdx + 1 ELSE NextAttempt(attemptIdx, res.threw)
     IN  /\ playerCalls' =
              Append(playerCalls,
                     [client |-> client,
                      rejection |-> IF accepted THEN None ELSE Some(message)])
         /\ streamData' = IF accepted THEN Some(res) ELSE streamData
         /\ lastErr' = IF accepted THEN lastErr ELSE NextLastErr(lastErr, message)
         /\ attemptIdx' = nextIdx
         /\ rpc' = IF (accepted /\ BreakOnAccept) \/ nextIdx > Len(attempts)
                   THEN "select" ELSE "loop"
  /\ UNCHANGED <<playerReplies, format, quality, vf, af, resolved, urlsRaw, infoRaw,
                 relayVars, crawlVars, helperVars>>

\* getStreamUrls after the loop, to its return or throw.
Finish ==
  /\ rpc = "select"
  /\ vf' = PickedVideo(streamData, format, quality)
  /\ af' = PickedAudio(streamData)
  /\ resolved' = Some(SelectStreams(streamData, lastErr, format, quality))
  /\ rpc' = "done"
  /\ UNCHANGED <<playerReplies, format, quality, attemptIdx, streamData, lastErr,
                 playerCalls, urlsRaw, infoRaw, relayVars, crawlVars, helperVars>>

ResolveQualities == {"highest", "360p"}

InitResolve ==
  /\ \E sample \in StreamSamples : \E kinds \in [1..Len(attempts) -> ReplyKinds] :
       playerReplies = [i \in 1..Len(attempts) |-> PlayerReply(kinds[i], sample, attempts[i])]
  /\ format \in Formats
  /\ quality \in ResolveQualities
  /\ rpc = "loop"
  /\ attemptIdx = 1
  /\ streamData = None
  /\ lastErr = None
  /\ playerCalls = <<>>
  /\ vf = None
  /\ af = None
  /\ resolved = None
  /\ urlsRaw = None
  /\ infoRaw = None
  /\ RelayIdle
  /\ CrawlIdle
  /\ HelpersIdle

NextResolve ==
  \/ TryClient
  \/ Finish

ResolveSpec == InitResolve /\ [][NextResolve]_vars

\* ------------------------------------------------- the stream-url route
\* What yt-dlp prints is a sequence of lines, a line a sequence of tokens.
Blank == " "
Lines ==
  { <<>>, << <<>> >>, << <<"u1">> >>, << <<Blank, "u1", Blank>>, <<Blank>> >>,
    << <<"u1">>, <<"u2">> >>, << <<"u1">>, <<>>, <<"u2", Blank>> >>,
    << <<"u1">>, <<"u2">>, <<"u3">> >> }

\* String.prototype.trim on one line
Trim(line) ==
  LET solid == {i \in 1..Len(line) : line[i] # Blank}
  IN  IF solid = {} THEN <<>>
      ELSE SubSeq(line, CHOOSE i \in solid : \A j \in solid : i <= j,
                        CHOOSE i \in solid : \A j \in solid : i >= j)

\* String(urlsRaw).trim().split("\n").map(u => u.trim()).filter(Boolean)
SplitUrls(raw) ==
  SelectSeq([i \in 1..Len(raw) |-> Trim(raw[i])], LAMBDA u : u # <<>>)

InfoRaws ==
  { [requested |-> r, ext |-> x] :
      r \in { <<>>, <<Some("mp4")>>, <<Some("webm"), Some("m4a")>>, <<None, None>> },
      x \in { None, Some("m4a") } }

\* x || default, for a string-or-undefined x
OrElse(x, default) == IF IsSome(x) /\ Val(x) # "" THEN Val(x) ELSE default

VideoExtOf(info) ==
  IF Len(info.requested) >= 2 THEN OrElse(info.requested[1], "mp4")
  ELSE IF Len(info.requested) = 1 THEN OrElse(info.requested[1], "mp4")
  ELSE OrElse(info.ext, "mp4")

AudioExtOf(info) ==
  IF Len(info.requested) >= 2 THEN OrElse(info.requested[2], "m4a")
  ELSE IF Len(info.requested) = 1 THEN OrElse(info.requested[1], "mp4")
  ELSE OrElse(info.ext, "m4a")

ResolvedAudioExt(info, fmt) ==
  IF fmt = "mp3" THEN OrElse(info.ext, AudioExtOf(info)) ELSE AudioExtOf(info)

\* urls.length === 1 ? "single" : "dual"
StreamTypeOf(urls) == IF Len(urls) = 1 THEN "single" ELSE "dual"

RouteResult(urls, info, fmt) ==
  IF Len(urls) = 0 THEN Thrown(<<"No stream URLs found">>)
  ELSE Returned(StreamTypeOf(urls),
                Some(urls[1]),
                IF Len(urls) > 1 THEN Some(urls[1]) ELSE None,
                IF Len(urls) > 1 THEN Some(urls[2]) ELSE None,
                VideoExtOf(info), ResolvedAudioExt(info, fmt))

\* GET of /api/stream-url for a given videoId, from the two yt-dlp runs'
\* outcome to the JSON reply; urlsRaw None stands for a run that threw.
StreamUrlGET ==
  /\ rpc = "route"
  /\ resolved' =
       Some(IF IsSome(urlsRaw)
            THEN RouteResult(SplitUrls(Val(urlsRaw)), Val(infoRaw), format)
            ELSE Thrown(<<"Failed to extract stream URL">>))
  /\ rpc' = "done"
  /\ UNCHANGED <<playerReplies, format, quality, attemptIdx, streamData, lastErr,
                 playerCalls, vf, af, urlsRaw, infoRaw, relayVars, crawlVars, helperVars>>

\* --------------------------------------------- selection over format lists
\* getStreamUrls with the loop over, IOS accepted, for every short list of
\* adaptive formats; and the stream-url route with yt-dlp's output in hand.
InitSelectStreams ==
  /\ \E adaptive \in SeqsUpTo(AdaptiveDescriptors("IOS"), MaxAdaptive) :
       \E combined \in CombinedLists("IOS") :
         LET res == BodyReply(Some("OK"), None, adaptive, combined)
         IN  /\ hasUrls(res)
             /\ playerReplies = [i \in 1..Len(attempts) |-> res]
             /\ streamData = Some(res)
  /\ format \in Formats
  /\ quality \in Qualities
  /\ rpc = "select"
  /\ attemptIdx = 2
  /\ lastErr = None
  /\ playerCalls = <<[client |-> "IOS", rejection |-> None]>>
  /\ vf = None
  /\ af = None
  /\ resolved = None
  /\ urlsRaw = None
  /\ infoRaw = None

InitStreamUrl ==
  /\ urlsRaw \in {None} \cup {Some(l) : l \in Lines}
  /\ infoRaw \in {Some(i) : i \in InfoRaws}
  /\ format \in Formats
  /\ quality \in Qualities
  /\ rpc = "route"
  /\ playerReplies = <<>>
  /\ attemptIdx = 0
  /\ streamData = None
  /\ lastErr = None
  /\ playerCalls = <<>>
  /\ vf = None
  /\ af = None
  /\ resolved = None

InitSelect ==
  /\ InitSelectStreams \/ InitStreamUrl
  /\ RelayIdle
  /\ CrawlIdle
  /\ HelpersIdle

NextSelect ==
  \/ Finish
  \/ StreamUrlGET

SelectSpec == InitSelect /\ [][NextSelect]_vars

\* The selection over adaptive formats among which two avc1 descriptors share
\* a height and two m4a descriptors share a bitrate.
TieDescriptors(client) ==
  { Desc(client, 1, Some(MimeAvc1), Some(240), None, TRUE),
    Desc(client, 2, Some(MimeAvc1), Some(720), None, TRUE),
    Desc(client, 5, Some(MimeAvc1), Some(720), None, TRUE),
    Desc(client, 9, Some(MimeM4a), None, Some(256), TRUE),
    Desc(client, 13, Some(MimeM4a), None, Some(256), TRUE),
    Desc(client, 11, Some(MimeOpus), None, Some(320), TRUE) }

InitTies ==
  /\ \E adaptive \in SeqsUpTo(TieDescriptors("IOS"), MaxAdaptive + 1) :
       LET res == BodyReply(Some("OK"), None, adaptive, <<>>)
       IN  /\ hasUrls(res)
           /\ playerReplies = [i \in 1..Len(attempts) |-> res]
           /\ streamData = Some(res)
  /\ format \in Formats
  /\ quality \in ResolveQualities
  /\ rpc = "select"
  /\ attemptIdx = 2
  /\ lastErr = None
  /\ playerCalls = <<[client |-> "IOS", rejection |-> None]>>
  /\ vf = None
  /\ af = None
  /\ resolved = None
  /\ urlsRaw = None
  /\ infoRaw = None
  /\ RelayIdle
  /\ CrawlIdle
  /\ HelpersIdle

TieSpec == InitTies /\ [][Finish]_vars

\* ------------------------------------------------ claims on getStreamUrls
ProfileOrder == <<"IOS", "ANDROID", "TVHTML5">>
Elems(seq) == {seq[i] : i \in 1..Len(seq)}

\* A reply the spec calls accepted: playable status and at least one URL.
Playable(res) ==
  /\ ~res.threw
  /\ res.status \in {Some("OK"), Some("CONTENT_CHECK_REQUIRED")}
  /\ \E f \in Elems(res.adaptive) \cup Elems(res.combined) : f.url # None

LoopOver == rpc \in {"select", "done"}
Settled == rpc = "done"
ResultUrls(r) == {r.url, r.videoUrl, r.audioUrl} \ {None}

\* C12: the profiles are tried in the order IOS, ANDROID, TVHTML5; the loop
\* stops at the first profile whose reply is accepted, no request follows an
\* accepted reply, and every URL of the result comes from that profile.
C12_FirstAcceptedProfileWins ==
  /\ Len(playerCalls) <= Len(ProfileOrder)
  /\ \A i \in 1..Len(playerCalls) :
       /\ playerCalls[i].client = ProfileOrder[i]
       /\ \A j \in 1..(i - 1) : ~Playable(playerReplies[j])
  /\ LoopOver =>
       \A i \in 1..Len(ProfileOrder) :
         (Playable(playerReplies[i]) /\ \A j \in 1..(i - 1) : ~Playable(playerReplies[j]))
           => /\ Len(playerCalls) = i
              /\ streamData = Some(playerReplies[i])
  /\ (Settled /\ Val(resolved).ok) =>
       \A u \in ResultUrls(Val(resolved)) : Val(u)[1] = ProfileOrder[Len(playerCalls)]

C12_Witness ==
  /\ Settled
  /\ Val(resolved).ok
  /\ Len(playerCalls) = 2
  /\ Playable(playerReplies[2])
  /\ Playable(playerReplies[3])
  /\ Val(resolved).streamType = "dual"
  /\ Val(Val(resolved).videoUrl)[1] = "ANDROID"

PlayableStatus(res) ==
  ~res.threw /\ res.status \in {Some("OK"), Some("CONTENT_CHECK_REQUIRED")}
WithUrl(res) ==
  ~res.threw /\ \E f \in Elems(res.adaptive) \cup Elems(res.combined) : f.url # None

\* C28: a profile's reply is accepted only when its status is playable and it
\* carries at least one descriptor with a URL; every other reply, a playable
\* status without a URL and URLs under a non-playable status included, is
\* recorded as a rejection and the next profile is tried.
C28_AcceptNeedsStatusAndUrl ==
  \A i \in 1..Len(playerCalls) :
    LET res == playerReplies[i]
    IN  /\ playerCalls[i].rejection = None <=> (PlayableStatus(res) /\ WithUrl(res))
        /\ ~(PlayableStatus(res) /\ WithUrl(res)) =>
             /\ i = Len(playerCalls) => lastErr = playerCalls[i].rejection
             /\ i < Len(ProfileOrder) =>
                  \/ rpc = "loop" /\ attemptIdx = i + 1 /\ Len(playerCalls) = i
                  \/ Len(playerCalls) > i /\ playerCalls[i + 1].client = ProfileOrder[i + 1]

C28_Witness ==
  /\ Settled
  /\ Val(resolved).ok
  /\ Len(playerCalls) = 3
  /\ PlayableStatus(playerReplies[1]) /\ ~WithUrl(playerReplies[1])
  /\ WithUrl(playerReplies[2]) /\ ~PlayableStatus(playerReplies[2])
  /\ IsSome(playerCalls[1].rejection)
  /\ IsSome(playerCalls[2].rejection)
  /\ playerCalls[3].rejection = None

\* C29: when the resolution fails every profile was tried; in particular,
\* when the descriptors of an accepted profile yield no selectable stream the
\* remaining profiles are tried.
C29_FailureMeansAllTried ==
  (Settled /\ ~Val(resolved).ok) => Len(playerCalls) = Len(ProfileOrder)

\* C13: no profile is asked more than once, and a profile that rejects or
\* throws is followed by the request to the next profile.
C13_OneRequestPerProfile ==
  /\ \A i, j \in 1..Len(playerCalls) :
       playerCalls[i].client = playerCalls[j].client => i = j
  /\ \A i \in 1..Len(playerCalls) :
       (LoopOver /\ i < Len(ProfileOrder) /\ IsSome(playerCalls[i].rejection))
         => /\ Len(playerCalls) > i
            /\ playerCalls[i + 1].client = ProfileOrder[i + 1]

C13_Witness ==
  /\ LoopOver
  /\ Len(playerCalls) = 3
  /\ playerReplies[1].threw
  /\ ~playerReplies[2].threw
  /\ IsSome(playerCalls[2].rejection)
  /\ playerReplies[3].threw

\* C14: when every profile is rejected the resolution fails, and its error is
\* the rejection of the last profile tried.
C14_LastRejectionReported ==
  (Settled /\ \A i \in 1..Len(ProfileOrder) : ~Playable(playerReplies[i]))
    => /\ ~Val(resolved).ok
       /\ Len(playerCalls) = Len(ProfileOrder)
       /\ playerCalls[Len(playerCalls)].client = "TVHTML5"
       /\ Some(Val(resolved).error) = playerCalls[Len(playerCalls)].rejection

C14_Witness ==
  /\ Settled
  /\ ~Val(resolved).ok
  /\ Len(playerCalls) = 3
  /\ playerCalls[1].rejection = Some(SignIn)
  /\ playerCalls[2].rejection = Some(<<"fetch failed">>)
  /\ Val(resolved).error = <<"TVHTML5", ": ", "UNPLAYABLE">>

\* ------------------------------------------- claims on the format selection
Offered == Elems(Val(streamData).adaptive)
OfferedCombined == Elems(Val(streamData).combined)
Height(f) == IF f.height = None THEN 0 ELSE Val(f.height)
Bitrate(f) == IF f.bitrate = None THEN 0 ELSE Val(f.bitrate)
HasMime(f, token) == f.mimeType # None /\ token \in Elems(Val(f.mimeType))
IsKind(f, kind) == f.mimeType # None /\ Val(f.mimeType)[1] = kind

\* C15: a successful resolution is well formed: dual has both videoUrl and
\* audioUrl, single has url and neither videoUrl nor audioUrl.
C15_ResolutionWellFormed ==
  (Settled /\ Val(resolved).ok) =>
    LET r == Val(resolved)
    IN  /\ r.streamType \in {"single", "dual"}
        /\ r.streamType = "dual" => (r.videoUrl # None /\ r.audioUrl # None)
        /\ r.streamType = "single" =>
             (r.url # None /\ r.videoUrl = None /\ r.audioUrl = None)

C15_Witness ==
  /\ Settled
  /\ streamData # None
  /\ format = "mp4"
  /\ vf # None
  /\ af = None
  /\ Val(resolved).ok
  /\ Val(resolved).streamType = "single"
  /\ Val(resolved).url = Some(<<"IOS", 21>>)

\* The ceiling a quality label stands for.
QualityCeiling(q) ==
  CASE q = "highest" -> 1080
    [] q = "1080p" -> 1080
    [] q = "1440p" -> 1440
    [] q = "720p" -> 720
    [] q = "480p" -> 480
    [] q = "360p" -> 360
    [] OTHER -> 144

ChosenVideoUrl(r) == IF r.streamType = "dual" THEN r.videoUrl ELSE r.url

\* C16: the video descriptor a video resolution is built from, adaptive or
\* combined, never has a height above the ceiling of the requested quality.
C16_ChosenVideoWithinCeiling ==
  (Settled /\ streamData # None /\ format # "mp3" /\ Val(resolved).ok) =>
    \A f \in Offered \cup OfferedCombined :
      f.url = ChosenVideoUrl(Val(resolved)) => Height(f) <= QualityCeiling(quality)

C16_Witness ==
  /\ Settled
  /\ streamData # None
  /\ format = "mp4"
  /\ quality = "360p"
  /\ \E f \in Offered : f.itag = 2
  /\ \E f \in OfferedCombined : f.itag = 22
  /\ Val(resolved).ok
  /\ Val(resolved).streamType = "single"
  /\ Val(resolved).url = Some(<<"IOS", 21>>)

PreferredVideo ==
  {f \in Offered : f.url # None /\ HasMime(f, "avc1") /\ Height(f) <= MaxH(quality)}
QualifyingVideo ==
  {f \in Offered : f.url # None /\ IsKind(f, "video/") /\ Height(f) <= MaxH(quality)}

\* C17: pickVideo returns the tallest avc1 descriptor with a URL under the
\* ceiling when there is one, whatever other codecs offer; else the tallest
\* video descriptor with a URL under the ceiling; else nothing.
C17_PreferredCodecFirst ==
  (Settled /\ streamData # None /\ format # "mp3") =>
    /\ PreferredVideo # {} =>
         /\ vf \in {Some(f) : f \in PreferredVideo}
         /\ \A g \in PreferredVideo : Height(g) <= Height(Val(vf))
    /\ (PreferredVideo = {} /\ QualifyingVideo # {}) =>
         /\ vf \in {Some(f) : f \in QualifyingVideo}
         /\ \A g \in QualifyingVideo : Height(g) <= Height(Val(vf))
    /\ (PreferredVideo = {} /\ QualifyingVideo = {}) => vf = None

C17_Witness ==
  /\ Settled
  /\ streamData # None
  /\ format = "mp4"
  /\ quality = "highest"
  /\ {f.itag : f \in Offered} = {1, 3, 6}
  /\ vf # None
  /\ Val(vf).itag = 1

PreferredAudio == {f \in Offered : f.url # None /\ HasMime(f, "mp4") /\ IsKind(f, "audio/")}
AnyAudio == {f \in Offered : f.url # None /\ IsKind(f, "audio/")}

\* C18: pickAudio returns the audio/mp4 descriptor with a URL of greatest
\* bitrate when there is one, whatever other containers offer, else the audio
\* descriptor with a URL of greatest bitrate; an audio request offered m4a at
\* 128 and at 256 resolves to the 256 one.
C18_PreferredContainerFirst ==
  (Settled /\ streamData # None) =>
    /\ PreferredAudio # {} =>
         /\ af \in {Some(f) : f \in PreferredAudio}
         /\ \A g \in PreferredAudio : Bitrate(g) <= Bitrate(Val(af))
    /\ (PreferredAudio = {} /\ AnyAudio # {}) =>
         /\ af \in {Some(f) : f \in AnyAudio}
         /\ \A g \in AnyAudio : Bitrate(g) <= Bitrate(Val(af))
    /\ (format = "mp3" /\ {8, 9} \subseteq {f.itag : f \in Offered}) =>
         /\ Val(resolved).ok
         /\ Val(resolved).url = Some(<<"IOS", 9>>)

C18_Witness ==
  /\ Settled
  /\ streamData # None
  /\ format = "mp3"
  /\ {f.itag : f \in Offered} = {8, 9, 11}
  /\ Val(streamData).adaptive[1].itag = 8
  /\ Val(resolved).ok
  /\ Val(resolved).url = Some(<<"IOS", 9>>)

QualifyingCombined ==
  {f \in OfferedCombined : f.url # None /\ Height(f) <= QualityCeiling(quality)}
PairOffered == QualifyingVideo # {} /\ AnyAudio # {}

\* C33: a video request whose adaptive descriptors offer no video+audio pair
\* resolves to the tallest combined descriptor with a URL under the ceiling,
\* as a single resolution; it fails, with the no-stream error, exactly when
\* there is neither a pair nor such a combined descriptor.
C33_CombinedFallback ==
  (Settled /\ streamData # None /\ format # "mp3") =>
    LET r == Val(resolved)
    IN  /\ (~PairOffered /\ QualifyingCombined # {}) =>
             /\ r.ok
             /\ r.streamType = "single"
             /\ \E f \in QualifyingCombined :
                  /\ r.url = f.url
                  /\ \A g \in QualifyingCombined : Height(g) <= Height(f)
        /\ ~r.ok <=> (~PairOffered /\ QualifyingCombined = {})
        /\ ~r.ok => r.error = <<"No stream URLs found">>

C33_Witness ==
  /\ Settled
  /\ streamData # None
  /\ format = "mp4"
  /\ quality = "360p"
  /\ QualifyingVideo # {}
  /\ AnyAudio = {}
  /\ {f.itag : f \in OfferedCombined} = {21, 22}
  /\ Val(resolved).streamType = "single"
  /\ Val(resolved).url = Some(<<"IOS", 21>>)

\* The descriptors pickVideo and pickAudio choose among: the preferred ones
\* when there are any, else all qualifying ones.
VideoClass == IF PreferredVideo # {} THEN PreferredVideo ELSE QualifyingVideo
AudioClass == IF PreferredAudio # {} THEN PreferredAudio ELSE AnyAudio
Declared == Val(streamData).adaptive
FirstTallest ==
  CHOOSE i \in 1..Len(Declared) :
    /\ Declared[i] \in VideoClass
    /\ \A g \in VideoClass : Height(g) <= Height(Declared[i])
    /\ \A j \in 1..(i - 1) :
         ~(Declared[j] \in VideoClass /\ Height(Declared[j]) = Height(Declared[i]))
FirstLoudest ==
  CHOOSE i \in 1..Len(Declared) :
    /\ Declared[i] \in AudioClass
    /\ \A g \in AudioClass : Bitrate(g) <= Bitrate(Declared[i])
    /\ \A j \in 1..(i - 1) :
         ~(Declared[j] \in AudioClass /\ Bitrate(Declared[j]) = Bitrate(Declared[i]))

\* C34: among the descriptors that share the greatest height (video) or the
\* greatest bitrate (audio), the one declared first in the list is chosen.
C34_TiesGoToFirstDeclared ==
  (Settled /\ streamData # None) =>
    /\ (format # "mp3" /\ VideoClass # {}) => vf = Some(Declared[FirstTallest])
    /\ AudioClass # {} => af = Some(Declared[FirstLoudest])

C34_Witness ==
  /\ Settled
  /\ streamData # None
  /\ format = "mp4"
  /\ Len(Declared) = 4
  /\ Declared[1].itag = 5 /\ Declared[2].itag = 2
  /\ Declared[3].itag = 13 /\ Declared[4].itag = 9
  /\ Val(vf).itag = 5
  /\ Val(af).itag = 13
  /\ Val(resolved).videoUrl = Some(<<"IOS", 5>>)
  /\ Val(resolved).audioUrl = Some(<<"IOS", 13>>)

\* ------------------------------------------------------- getPlaylistInfo
MaxTokens == 3
MAX_PAGES == 25
MIN_TOKEN_LENGTH == 40

\* A continuation token is a string: its identity and its length.
Token(k) == [id |-> k, length |-> MIN_TOKEN_LENGTH + 1]
ShortToken == [id |-> 0, length |-> MIN_TOKEN_LENGTH]
Tokens == {Token(k) : k \in 1..MaxTokens}

\* A playlistVideoRenderer: videoId, title and shortBylineText, each optional.
Renderer(videoId, title, author) ==
  [videoId |-> videoId, title |-> title, author |-> author]

\* The renderer lists of the pages the model's upstream serves, in the order
\* findAll reaches them.
RendererLists ==
  { <<>>,
    << Renderer(Some("a"), Some("Song"), Some("Alice")),
       Renderer(Some("b"), None, None) >>,
    << Renderer(Some("b"), Some("Song"), None),
       Renderer(Some("c"), Some("Song"), Some("Carol")) >>,
    << Renderer(None, Some("Song"), None),
       Renderer(Some("a"), Some("Tune"), None),
       Renderer(Some("d"), Some("[Private video] "), None),
       Renderer(Some("a"), Some("Song"), Some("Alice")) >> }

\* The tokens of a page's continuationItemRenderers, in the order findAll
\* reaches them; None is an item whose token is missing or the empty string.
TokenLists ==
  {<<>>, <<Some(ShortToken)>>, <<None, Some(Token(1))>>}
    \cup {<<Some(t)>> : t \in Tokens}

Header == [title |-> "Mix", author |-> "Bob"]

\* A reply of innertubePost("browse", ...).
Page(renderers, tokens, header) ==
  [threw |-> FALSE, renderers |-> renderers, tokens |-> tokens, header |-> header]
BrowseFailed ==
  [threw |-> TRUE, renderers |-> <<>>, tokens |-> <<>>, header |-> None]
Pages ==
  {Page(r, t, None) : r \in RendererLists, t \in TokenLists}
    \cup {Page(<<Renderer(Some("a"), Some("Song"), None)>>, t, Some(Header)) : t \in TokenLists}
BrowseReplies == Pages \cup {BrowseFailed}

\* title.toLowerCase().trim()
LowerTrim(title) ==
  CASE title = "[Private video] " -> "[private video]"
    [] title = "Song" -> "song"
    [] title = "Tune" -> "tune"
    [] title = "Unknown" -> "unknown"
    [] OTHER -> title
UNAVAILABLE == {"[private video]", "[deleted video]", "[unavailable]"}

Parsed(r) ==
  [videoId |-> Val(r.videoId),
   title |-> OrElse(r.title, "Unknown"),
   author |-> OrElse(r.author, "Unknown")]
Listed(r) ==
  /\ IsSome(r.videoId)
  /\ LowerTrim(OrElse(r.title, "Unknown")) \notin UNAVAILABLE
parseVideos(page) ==
  LET kept == SelectSeq(page.renderers, Listed)
  IN  [i \in 1..Len(kept) |-> Parsed(kept[i])]

\* The first token that is a string longer than 40, or None (null).
getContinuationToken(page) ==
  LET good == {i \in 1..Len(page.tokens) :
                 IsSome(page.tokens[i]) /\ Val(page.tokens[i]).length > MIN_TOKEN_LENGTH}
  IN  IF good = {} THEN None
      ELSE page.tokens[CHOOSE i \in good : \A j \in good : i <= j]

getPlaylistMeta(page) ==
  IF IsSome(page.header) THEN Val(page.header)
  ELSE [title |-> "Unknown Playlist", author |-> "Unknown"]

\* usedTokens.has(token)
TokenUsedNever(used, token) == FALSE
TokenUsed(used, token) == token \in used

\* seen.has(v.videoId)
SeenBeforeNever(seen, videoId) == FALSE
SeenBefore(seen, videoId) == videoId \in seen

\* The deduplicating loop: the entries pushed to videos, index counted from 1.
RECURSIVE Dedupe(_, _, _, _)
Dedupe(rest, seen, videos, m) ==
  IF rest = <<>> THEN videos
  ELSE LET v == Head(rest)
       IN  IF SeenBefore(seen, v.videoId)
           THEN Dedupe(Tail(rest), seen, videos, m)
           ELSE Dedupe(Tail(rest), seen \cup {v.videoId},
                       Append(videos,
                              [videoId |-> v.videoId,
                               title |-> v.title,
                               author |-> IF v.author # "Unknown" THEN v.author
                                          ELSE m.author,
                               index |-> Len(videos) + 1]),
                       m)

PlaylistResult(m, videos) ==
  [ok |-> TRUE, error |-> <<>>, title |-> m.title, author |-> m.author,
   videoCount |-> Len(videos), videos |-> videos]
PlaylistFailed(message) ==
  [ok |-> FALSE, error |-> message, title |-> "", author |-> "",
   videoCount |-> 0, videos |-> <<>>]

\* What /browse may answer the next request with: any of pool, or, against an
\* upstream that serves what it served an earlier call, that call's next reply.
Answers(pool) ==
  IF IsSome(previous) /\ Len(served) < Len(Val(previous).served)
  THEN {Val(previous).served[Len(served) + 1]}
  ELSE pool

\* The first /browse request and what follows it up to the while loop.
FirstPageFrom(pool) ==
  /\ cpc = "first"
  /\ \E reply \in Answers(pool) :
       /\ served' = Append(served, reply)
       /\ IF reply.threw
          THEN /\ listing' = Some(PlaylistFailed(<<"Innertube /browse HTTP 500">>))
               /\ cpc' = "done"
               /\ UNCHANGED <<data, meta, all>>
          ELSE /\ data' = Some(reply)
               /\ meta' = Some(getPlaylistMeta(reply))
               /\ all' = parseVideos(reply)
               /\ cpc' = "loop"
               /\ UNCHANGED listing
  /\ UNCHANGED <<usedTokens, pages, browseCalls, previous, relayVars, resolveVars, helperVars>>

FirstPage == FirstPageFrom(BrowseReplies)

\* catch (e) { ...; break; }: where a continuation request that threw leads.
OnContinuationThrowRethrow == "rethrown"
OnContinuationThrow == "dedupe"

\* all = all.concat(more)
GatherLatestOnly(gathered, more) == more
Gather(gathered, more) == gathered \o more

\* One pass of the while loop, whose test holds on entry.
ContinuationStepFrom(pool) ==
  /\ cpc = "loop"
  /\ pages < MAX_PAGES
  /\ LET token == getContinuationToken(Val(data))
     IN  IF ~IsSome(token) \/ TokenUsed(usedTokens, Val(token))
         THEN /\ cpc' = "dedupe"
              /\ UNCHANGED <<data, all, usedTokens, pages, browseCalls, served>>
         ELSE /\ usedTokens' = usedTokens \cup {Val(token)}
              /\ browseCalls' = Append(browseCalls, Val(token))
              /\ \E reply \in Answers(pool) :
                   /\ served' = Append(served, reply)
                   /\ IF reply.threw
                      THEN /\ cpc' = OnContinuationThrow
                           /\ UNCHANGED <<data, all, pages>>
                      ELSE /\ data' = Some(reply)
                           /\ IF Len(parseVideos(reply)) = 0
                              THEN /\ cpc' = "dedupe"
                                   /\ UNCHANGED <<all, pages>>
                              ELSE /\ all' = Gather(all, parseVideos(reply))
                                   /\ pages' = pages + 1
                                   /\ cpc' = IF pages + 1 < MAX_PAGES THEN "loop"
                                             ELSE "dedupe"
  /\ UNCHANGED <<meta, listing, previous, relayVars, resolveVars, helperVars>>

ContinuationStep == ContinuationStepFrom(BrowseReplies)

\* From the end of the while loop to the return.
Deduplicate ==
  /\ cpc = "dedupe"
  /\ listing' = Some(PlaylistResult(Val(meta), Dedupe(all, {}, <<>>, Val(meta))))
  /\ cpc' = "done"
  /\ UNCHANGED <<data, meta, all, usedTokens, pages, browseCalls, served, previous,
                 relayVars, resolveVars, helperVars>>

InitCrawl ==
  /\ cpc = "first"
  /\ data = None
  /\ meta = None
  /\ all = <<>>
  /\ usedTokens = {}
  /\ pages = 0
  /\ browseCalls = <<>>
  /\ listing = None
  /\ served = <<>>
  /\ previous = None
  /\ RelayIdle
  /\ ResolveIdle
  /\ HelpersIdle

NextCrawl ==
  \/ FirstPage
  \/ ContinuationStep
  \/ Deduplicate

CrawlSpec == InitCrawl /\ [][NextCrawl]_vars

\* An upstream that never runs out: to its n-th request it answers a page with
\* an entry and a token no earlier page had; it may also answer with a page
\* that has the token and no entry, or the entry and no token, or fail.
EndlessReplies ==
  LET n == Len(served) + 1
      entry == Renderer(Some(n), Some("Song"), None)
  IN  { Page(<<entry>>, <<Some(Token(n))>>, None),
        Page(<<>>, <<Some(Token(n))>>, None),
        Page(<<entry>>, <<>>, None),
        BrowseFailed }

EndlessFirstPage == FirstPageFrom(EndlessReplies)
EndlessContinuationStep == ContinuationStepFrom(EndlessReplies)

NextEndless ==
  \/ EndlessFirstPage
  \/ EndlessContinuationStep
  \/ Deduplicate

EndlessSpec == InitCrawl /\ [][NextEndless]_vars

\* const usedTokens = new Set(): the set a call starts with, whatever an
\* earlier call left.
FreshTokensKept(left) == left
FreshTokens(left) == {}

\* A second call of getPlaylistInfo for the same playlist, against an upstream
\* that serves it what it served the first.
Recrawl ==
  /\ cpc = "done"
  /\ previous = None
  /\ previous' = Some([served |-> served, listing |-> listing])
  /\ cpc' = "first"
  /\ data' = None
  /\ meta' = None
  /\ all' = <<>>
  /\ usedTokens' = FreshTokens(usedTokens)
  /\ pages' = 0
  /\ browseCalls' = <<>>
  /\ listing' = None
  /\ served' = <<>>
  /\ UNCHANGED <<relayVars, resolveVars, helperVars>>

\* The pages of the playlists crawled twice.
RecrawlReplies == {r \in BrowseReplies : r.header = None}
RecrawlFirstPage == FirstPageFrom(RecrawlReplies)
RecrawlContinuationStep == ContinuationStepFrom(RecrawlReplies)

NextRecrawl ==
  \/ RecrawlFirstPage
  \/ RecrawlContinuationStep
  \/ Deduplicate
  \/ Recrawl

RecrawlSpec == InitCrawl /\ [][NextRecrawl]_vars

\* ------------------------------------------------- claims on getPlaylistInfo
Crawled == cpc = "done" /\ Val(listing).ok
Entries == Val(listing).videos
FirstAt(videoId) == CHOOSE i \in 1..Len(all) : all[i].videoId = videoId /\
                      \A j \in 1..(i - 1) : all[j].videoId # videoId

\* C19: the entries of a crawl result are unique by videoId, numbered 1, 2,
\* 3, ... in the order of the first occurrence of each videoId on the pages.
C19_UniqueInDiscoveryOrder ==
  Crawled =>
    /\ \A i, j \in 1..Len(Entries) : Entries[i].videoId = Entries[j].videoId => i = j
    /\ \A i \in 1..Len(Entries) : Entries[i].index = i
    /\ {Entries[i].videoId : i \in 1..Len(Entries)} = {all[i].videoId : i \in 1..Len(all)}
    /\ \A i, j \in 1..Len(Entries) :
         i < j => FirstAt(Entries[i].videoId) < FirstAt(Entries[j].videoId)

C19_Witness ==
  /\ Crawled
  /\ Len(browseCalls) = 2
  /\ Len(all) = 6
  /\ all[3].videoId = "a"
  /\ all[4].videoId = "a"
  /\ all[5].videoId = "b"
  /\ [i \in 1..Len(Entries) |-> Entries[i].videoId] = <<"a", "b", "c">>

\* C20: no continuation token is requested twice; a page handing back a used
\* token ends the paging without a request, and the entries gathered so far,
\* those of that page included, are returned.
C20_TokenUsedOnce ==
  /\ \A i, j \in 1..Len(browseCalls) : browseCalls[i] = browseCalls[j] => i = j
  /\ {browseCalls[i] : i \in 1..Len(browseCalls)} = usedTokens
  /\ (Crawled /\ getContinuationToken(Val(data)) \in {Some(t) : t \in usedTokens}) =>
       /\ Len(all) >= Len(parseVideos(Val(data)))
       /\ SubSeq(all, Len(all) - Len(parseVideos(Val(data))) + 1, Len(all))
            = parseVideos(Val(data))
       /\ {Entries[i].videoId : i \in 1..Len(Entries)} = {all[i].videoId : i \in 1..Len(all)}

C20_Witness ==
  /\ Crawled
  /\ browseCalls = <<Token(1), Token(2)>>
  /\ getContinuationToken(Val(data)) = Some(Token(1))
  /\ Len(parseVideos(Val(data))) > 0
  /\ Len(Entries) = 3

\* C21: the pages a crawl fetches, the first one included, never number more
\* than MAX_PAGES, whatever the upstream serves.
C21_PagesWithinBound == Len(served) <= MAX_PAGES

\* The entries of the pages served so far, in order of arrival; a request
\* that threw brought none.
RECURSIVE GatheredUpTo(_)
GatheredUpTo(k) ==
  IF k = 0 THEN <<>>
  ELSE GatheredUpTo(k - 1) \o (IF served[k].threw THEN <<>> ELSE parseVideos(served[k]))

\* A sequence without the repeats of its earlier members.
RECURSIVE Distinct(_)
Distinct(seq) ==
  IF seq = <<>> THEN <<>>
  ELSE LET front == Distinct(SubSeq(seq, 1, Len(seq) - 1))
           last == seq[Len(seq)]
       IN  IF last \in Elems(front) THEN front ELSE Append(front, last)

Ids(seq) == [i \in 1..Len(seq) |-> seq[i].videoId]
ContinuationThrew == Len(served) >= 2 /\ served[Len(served)].threw

\* C22: when the request for a continuation page throws, the crawl stops
\* paging and returns a normal result: the entries of the pages fetched before
\* it, under the first page's title and author.
C22_ContinuationFailureGivesPartialResult ==
  ContinuationThrew =>
    /\ cpc \in {"dedupe", "done"}
    /\ cpc = "done" =>
         /\ Val(listing).ok
         /\ Ids(Entries) = Distinct(Ids(GatheredUpTo(Len(served) - 1)))
         /\ Val(listing).videoCount = Len(Entries)
         /\ Val(listing).title = getPlaylistMeta(served[1]).title
         /\ Val(listing).author = getPlaylistMeta(served[1]).author

C22_Witness ==
  /\ cpc = "done"
  /\ Len(served) = 3
  /\ served[3].threw
  /\ served[2].header # None
  /\ Val(listing).ok
  /\ Val(listing).title = "Unknown Playlist"
  /\ Ids(Entries) = <<"b", "c", "a">>

\* C23: a second crawl served the same pages returns what the first returned,
\* and a page's content served twice within a crawl adds no videoId twice.
C23_RecrawlReturnsTheSame ==
  (cpc = "done" /\ previous # None) =>
    /\ served = Val(previous).served
    /\ listing = Val(previous).listing
    /\ Val(listing).ok =>
         \A i, j \in 1..Len(Entries) : Entries[i].videoId = Entries[j].videoId => i = j

C23_Witness ==
  /\ cpc = "done"
  /\ previous # None
  /\ Len(served) = 4
  /\ served[2].renderers = served[3].renderers
  /\ Len(served[4].renderers) > 0
  /\ Len(browseCalls) = 3
  /\ Ids(Entries) = <<"a", "b", "c">>
  /\ listing = Val(previous).listing

\* The pages served so far are those of a well-formed listing: none failed,
\* each holds entries, all of them available and no two alike, and each page
\* before the k-th hands a valid token no earlier page handed.
WellFormedListing(k) ==
  /\ \A i \in 1..k :
       /\ ~served[i].threw
       /\ Len(served[i].renderers) > 0
       /\ \A n \in 1..Len(served[i].renderers) : Listed(served[i].renderers[n])
  /\ LET ids == Ids(GatheredUpTo(k))
     IN  Cardinality(Elems(ids)) = Len(ids)
  /\ \A i \in 1..(k - 1) :
       /\ getContinuationToken(served[i]) # None
       /\ \A j \in 1..(i - 1) :
            getContinuationToken(served[j]) # getContinuationToken(served[i])

RECURSIVE CountUpTo(_)
CountUpTo(k) == IF k = 0 THEN 0 ELSE CountUpTo(k - 1) + Len(served[k].renderers)

\* C24: over a well-formed listing the crawl goes on while pages hand a token
\* and, at the page that hands none, returns every entry of every page, in
\* order, under the title and author of the first page.
C24_WellFormedListingReturnedWhole ==
  (Len(served) >= 1 /\ Len(served) <= MAX_PAGES /\ WellFormedListing(Len(served))) =>
    LET k == Len(served)
        fresh == /\ getContinuationToken(served[k]) # None
                 /\ \A j \in 1..(k - 1) :
                      getContinuationToken(served[j]) # getContinuationToken(served[k])
    IN  /\ Ids(all) = Ids(GatheredUpTo(k))
        /\ fresh => cpc = "loop"
        /\ (getContinuationToken(served[k]) = None /\ cpc = "done") =>
             /\ Val(listing).ok
             /\ Ids(Entries) = Ids(GatheredUpTo(k))
             /\ Val(listing).videoCount = CountUpTo(k)
             /\ Val(listing).title = getPlaylistMeta(served[1]).title
             /\ Val(listing).author = getPlaylistMeta(served[1]).author

C24_Witness ==
  /\ cpc = "done"
  /\ Len(served) = 2
  /\ WellFormedListing(2)
  /\ getContinuationToken(served[2]) = None
  /\ served[1].header = None
  /\ served[2].header = Some(Header)
  /\ Val(listing).videoCount = 3
  /\ Val(listing).author = "Unknown"

\* The token of the first continuationItemRenderer of a page, None when the
\* page has no such item or the item's token is missing or empty.
FirstToken(page) == IF page.tokens = <<>> THEN None ELSE page.tokens[1]

\* C31: the token of every continuation request is the token of the first
\* continuation item of the page before it; when that first token is empty no
\* request follows, a later item of the same page is not used instead.
C31_FirstTokenOrStop ==
  \A k \in 1..Len(browseCalls) : FirstToken(served[k]) = Some(browseCalls[k])

LoopEnded == cpc \in {"dedupe", "done"} /\ served # <<>> /\ ~served[1].threw
LastServed == served[Len(served)]

\* C32: below the page bound the paging ends only on a page without a token,
\* on a used token or on a request that threw: a page that brings no entry
\* but hands back a fresh token is followed by the request for the next page.
C32_FreshTokenIsFollowed ==
  (LoopEnded /\ Len(served) <= MAX_PAGES /\ ~LastServed.threw) =>
    LET token == getContinuationToken(LastServed)
    IN  ~IsSome(token) \/ TokenUsed(usedTokens, Val(token))

\* C35: a relay that closed its stream without error after advertising a
\* Content-Length has emitted exactly that many blocks, whatever the upstream
\* answered on the way (short chunks, longer ones, 416 before the end).
C35_ClosedLengthMatches ==
  (pc = "closed" /\ IsSome(contentLength)) => Len(emitted) = Val(contentLength)

\* C36: the chunks a relay has fetched and the caller has not read never
\* number more than the stream's high-water mark and the one chunk fetched
\* while the queue was below it: the relay requests no further chunk while the
\* caller has not consumed the ones already emitted.
C36_UnreadChunksBounded == queued <= HIGH_WATER_MARK + 1

\* ======================================================================
\* withRetry (src/lib/ytdlp.js)
\* ======================================================================
MaxRetries == 3       \* largest retries a caller passes

\* How a call of fn ends: with a value, or with an error whose message is a
\* string (a sequence of tokens) or is missing.
FnValue == [threw |-> FALSE, value |-> "json", message |-> None]
FnError(message) == [threw |-> TRUE, value |-> "", message |-> message]
ErrTooMany == FnError(Some(<<"ERROR: ", "HTTP Error", " ", "429", ": Too Many Requests">>))
ErrRateLimit == FnError(Some(<<"rate limit", " exceeded">>))
ErrSignIn == FnError(Some(<<"Sign in", " to confirm you are not a bot">>))
ErrHttp == FnError(Some(<<"ERROR: ", "HTTP Error", " 503">>))
ErrGone == FnError(Some(<<"HTTP Error", " 404: ", "This video is not available">>))
ErrPrivate == FnError(Some(<<"Private video">>))
ErrBare == FnError(None)
FnOutcomes ==
  {FnValue, ErrTooMany, ErrRateLimit, ErrSignIn, ErrHttp, ErrGone, ErrPrivate, ErrBare}

\* The delayMs the callers pass: 1000 (stream-url) and the default 2000.
Delays == {1000, 2000}

\* err?.message || ""
MessageOf(err) == IF IsSome(err.message) THEN Val(err.message) ELSE <<>>

isTransientAlways(msg) == TRUE
isTransient(msg) ==
  \/ Includes(msg, <<"429">>)
  \/ Includes(msg, <<"rate limit">>)
  \/ Includes(msg, <<"Sign in">>)
  \/ (Includes(msg, <<"HTTP Error">>) /\ ~Includes(msg, <<"This video is not available">>))

\* if (attempt === retries || !isTransient) throw err
Rethrows(att, n, err) == att = n \/ ~isTransient(MessageOf(err))

\* return await fn(), and the catch block after it.
CallFn ==
  /\ wpc = "call"
  /\ \E out \in FnOutcomes :
       /\ fnCalls' = Append(fnCalls, out)
       /\ IF ~out.threw \/ Rethrows(attemptNo, retries, out)
          THEN /\ settled' = Some(out)
               /\ wpc' = "done"
               /\ UNCHANGED waits
          ELSE /\ waits' = Append(waits, delayMs * attemptNo)
               /\ wpc' = "wait"
               /\ UNCHANGED settled
  /\ UNCHANGED <<retries, delayMs, attemptNo, loaderVars, downloadVars,
                 relayVars, resolveVars, crawlVars>>

\* The timer fires: attempt++ and the loop test, which holds.
WaitDone ==
  /\ wpc = "wait"
  /\ attemptNo' = attemptNo + 1
  /\ wpc' = IF attemptNo + 1 <= retries THEN "call" ELSE "done"
  /\ UNCHANGED <<retries, delayMs, fnCalls, waits, settled, loaderVars, downloadVars,
                 relayVars, resolveVars, crawlVars>>

\* withRetry as its callers call it: retries is 1 or 3 and never below 1.
InitRetry ==
  /\ wpc = "call"
  /\ retries \in 1..MaxRetries
  /\ delayMs \in Delays
  /\ attemptNo = 1
  /\ fnCalls = <<>>
  /\ waits = <<>>
  /\ settled = None
  /\ LoaderIdle
  /\ DownloadIdle
  /\ RelayIdle
  /\ ResolveIdle
  /\ CrawlIdle

NextRetry ==
  \/ CallFn
  \/ WaitDone

RetrySpec == InitRetry /\ [][NextRetry]_vars

\* The errors the retry policy counts as transient.
TransientErrors == {ErrTooMany, ErrRateLimit, ErrSignIn, ErrHttp}

\* C37: withRetry settles with the outcome of its last call of fn, a value or
\* the error thrown; it calls fn at least once and at most retries times,
\* again only after a transient error and the wait for it, and a
\* non-transient error is rethrown at once.
C37_SettlesWithLastCall ==
  /\ Len(fnCalls) <= retries
  /\ \A i \in 1..(Len(fnCalls) - 1) : fnCalls[i] \in TransientErrors
  /\ wpc = "done" =>
       /\ Len(fnCalls) >= 1
       /\ settled = Some(fnCalls[Len(fnCalls)])
       /\ Len(waits) = Len(fnCalls) - 1
       /\ fnCalls[Len(fnCalls)] \in TransientErrors => Len(fnCalls) = retries
  /\ wpc = "wait" =>
       /\ fnCalls[Len(fnCalls)] \in TransientErrors
       /\ Len(fnCalls) < retries
  /\ \A i \in 1..Len(waits) : waits[i] = delayMs * i

C37_Witness ==
  /\ wpc = "done"
  /\ retries = 3
  /\ fnCalls = <<ErrSignIn, ErrHttp, ErrGone>>
  /\ settled = Some(ErrGone)
  /\ waits = <<1000, 2000>>

\* ======================================================================
\* getFFmpeg (src/app/page.js)
\* ======================================================================
MaxCallers == 3       \* calls of getFFmpeg in one page session

Callers == 1..MaxCallers

\* Where a call of getFFmpeg stands, and what it returned.
At(where, inst) == [at |-> where, got |-> inst]

\* new FFmpeg(), made by caller c and not loaded yet.
NewFFmpeg(c) == [madeBy |-> c, loaded |-> FALSE]

\* The call starts and runs to its first await.
Enter(c) ==
  /\ caller[c].at = "idle"
  /\ IF ffmpegReady /\ IsSome(ffmpegInstance)
     THEN /\ caller' = [caller EXCEPT ![c] = At("returned", ffmpegInstance)]
          /\ UNCHANGED ffmpegLoading
     ELSE IF ffmpegLoading
     THEN /\ caller' = [caller EXCEPT ![c] = At("waiting", None)]
          /\ UNCHANGED ffmpegLoading
     ELSE /\ caller' = [caller EXCEPT ![c] = At("importing", None)]
          /\ ffmpegLoading' = TRUE
  /\ UNCHANGED <<ffmpegInstance, ffmpegReady, retryVars, downloadVars,
                 relayVars, resolveVars, crawlVars>>

\* The two dynamic imports settle; on success the instance is made.
Import(c) ==
  /\ caller[c].at = "importing"
  /\ \E imported \in BOOLEAN :
       IF imported
       THEN /\ ffmpegInstance' = Some(NewFFmpeg(c))
            /\ caller' = [caller EXCEPT ![c] = At("loading", None)]
            /\ UNCHANGED ffmpegLoading
       ELSE /\ ffmpegLoading' = FALSE
            /\ caller' = [caller EXCEPT ![c] = At("threw", None)]
            /\ UNCHANGED ffmpegInstance
  /\ UNCHANGED <<ffmpegReady, retryVars, downloadVars, relayVars, resolveVars, crawlVars>>

\* toBlobURL and ffmpegInstance.load settle.
Load(c) ==
  /\ caller[c].at = "loading"
  /\ \E loaded \in BOOLEAN :
       IF loaded
       THEN /\ ffmpegInstance' = Some([Val(ffmpegInstance) EXCEPT !.loaded = TRUE])
            /\ ffmpegReady' = TRUE
            /\ ffmpegLoading' = FALSE
            /\ caller' = [caller EXCEPT ![c] = At("returned", ffmpegInstance')]
       ELSE /\ ffmpegLoading' = FALSE
            /\ caller' = [caller EXCEPT ![c] = At("threw", None)]
            /\ UNCHANGED <<ffmpegInstance, ffmpegReady>>
  /\ UNCHANGED <<retryVars, downloadVars, relayVars, resolveVars, crawlVars>>

\* A tick of the waiter's interval that finds ffmpegReady set; any other tick
\* changes nothing.
Poll(c) ==
  /\ caller[c].at = "waiting"
  /\ ffmpegReady
  /\ caller' = [caller EXCEPT ![c] = At("returned", ffmpegInstance)]
  /\ UNCHANGED <<ffmpegInstance, ffmpegLoading, ffmpegReady, retryVars, downloadVars,
                 relayVars, resolveVars, crawlVars>>

InitLoader ==
  /\ ffmpegInstance = None
  /\ ffmpegLoading = FALSE
  /\ ffmpegReady = FALSE
  /\ caller = [c \in Callers |-> At("idle", None)]
  /\ RetryIdle
  /\ DownloadIdle
  /\ RelayIdle
  /\ ResolveIdle
  /\ CrawlIdle

NextLoader ==
  \E c \in Callers :
    \/ Enter(c)
    \/ Import(c)
    \/ Load(c)
    \/ Poll(c)

LoaderSpec == InitLoader /\ [][NextLoader]_vars

\* Every pending import, load and interval tick is eventually served; nothing
\* obliges another call of getFFmpeg to be made.
FairLoaderSpec ==
  /\ LoaderSpec
  /\ \A c \in Callers :
       /\ WF_vars(Import(c))
       /\ WF_vars(Load(c))
       /\ WF_vars(Poll(c))

CallEnded(c) == caller[c].at \in {"returned", "threw"}

\* C38: every call of getFFmpeg eventually returns the loaded instance or
\* throws; a caller that arrived during another caller's load is released
\* when that load finishes, also when it fails.
C38_EveryCallSettles ==
  \A c \in Callers : (caller[c].at # "idle") ~> CallEnded(c)

\* ======================================================================
\* GET /api/download (src/app/api/download/route.js)
\* ======================================================================
\* File names in os.tmpdir() that carry this request's uid.
Mp3Path == <<"uid", ".mp3">>
Mp4Path == <<"uid", ".mp4">>
RawAudioPath == <<"uid", "_audio">>
RawAudio(ext) == RawAudioPath \o <<".", ext>>

\* The extensions yt-dlp gives the best audio stream it finds.
RawExts == {"webm", "m4a", "opus", "mp4"}

\* info.title of the dumped JSON, when the title fetch succeeds.
Titles == {None, Some(<<"My", " ", "Song", "!">>), Some(<<" ", "#">>)}

WordTokens == {"My", "Song", "media_", "id"}

\* .replace(/[^\w\s\-]/g, "").trim().replace(/\s+/g, "_")
RECURSIVE TrimLeft(_)
TrimLeft(s) == IF s # <<>> /\ Head(s) = " " THEN TrimLeft(Tail(s)) ELSE s
RECURSIVE TrimRight(_)
TrimRight(s) ==
  IF s # <<>> /\ s[Len(s)] = " " THEN TrimRight(SubSeq(s, 1, Len(s) - 1)) ELSE s
SafeNameOf(title) ==
  LET kept == SelectSeq(title, LAMBDA t : t \in WordTokens \cup {" ", "-"})
      trimmed == TrimRight(TrimLeft(kept))
  IN [i \in 1..Len(trimmed) |-> IF trimmed[i] = " " THEN "_" ELSE trimmed[i]]

DefaultName(id) == <<"media_", id>>

\* f.startsWith(`${uid}_audio`)
StartsWithRaw(f) == Len(f) >= Len(RawAudioPath) /\ SubSeq(f, 1, Len(RawAudioPath)) = RawAudioPath

MaxFileChunks == 2    \* largest file streamed, in chunks of the read stream

\* stat.size of the file to stream, in chunks.
FileSizes == 1..MaxFileChunks

\* fs.createReadStream(path), nothing read yet.
ReadStream(size) == [size |-> size, read |-> 0]

\* The responses of the handler.
MissingVideoId ==
  [status |-> 400, contentType |-> "application/json", filename |-> <<>>, length |-> 0]
Failure ==
  [status |-> 500, contentType |-> "application/json", filename |-> <<>>, length |-> 0]
Attachment(type, name, size) ==
  [status |-> 200, contentType |-> type, filename |-> name, length |-> size]

\* cleanup(...files): unlink each that exists.
cleanup(onDisk, files) == onDisk \ files

\* The files the catch block of each branch removes.
CaughtMp3 == {Mp3Path, RawAudio("webm"), RawAudio("m4a")}
CaughtMp4 == {Mp4Path}

\* The handler up to the title fetch.
DownloadGET ==
  /\ dpc = "start"
  /\ IF ~IsSome(dvideoId)
     THEN /\ dresponse' = Some(MissingVideoId)
          /\ dpc' = "finished"
          /\ UNCHANGED safeName
     ELSE /\ safeName' = DefaultName(Val(dvideoId))
          /\ dpc' = "title"
          /\ UNCHANGED dresponse
  /\ UNCHANGED <<dformat, dvideoId, disk, downloadedAudio, fileStream, retryVars, loaderVars,
                 relayVars, resolveVars, crawlVars>>

\* The best-effort title fetch settles.
TitleFetched ==
  /\ dpc = "title"
  /\ \E fetched \in BOOLEAN, title \in Titles :
       safeName' = IF fetched
                   THEN SafeNameOf(IF IsSome(title) /\ Val(title) # <<>>
                                   THEN Val(title) ELSE safeName)
                   ELSE safeName
  /\ dpc' = "fetch"
  /\ UNCHANGED <<dformat, dvideoId, disk, downloadedAudio, dresponse, fileStream,
                 retryVars, loaderVars,
                 relayVars, resolveVars, crawlVars>>

\* mp3 branch: yt-dlp settles, then the directory is listed.
AudioFetched ==
  /\ dpc = "fetch"
  /\ dformat = "mp3"
  /\ \E ok \in BOOLEAN, written \in {{}} \cup {{RawAudio(x)} : x \in RawExts} :
       /\ ok \/ written = {}
       /\ LET onDisk == disk \cup written
           files == {f \in onDisk : StartsWithRaw(f)}
          IN IF ok /\ files # {}
             THEN /\ disk' = onDisk
                  /\ downloadedAudio' = Some(CHOOSE f \in files : TRUE)
                  /\ dpc' = "convert"
                  /\ UNCHANGED dresponse
             ELSE /\ disk' = cleanup(onDisk, CaughtMp3)
                  /\ dresponse' = Some(Failure)
                  /\ dpc' = "finished"
                  /\ UNCHANGED downloadedAudio
  /\ UNCHANGED <<dformat, dvideoId, safeName, fileStream, retryVars, loaderVars,
                 relayVars, resolveVars, crawlVars>>

\* mp3 branch: the ffmpeg conversion ends or fails; a failed conversion may
\* have begun writing the mp3.
Converted ==
  /\ dpc = "convert"
  /\ \E ok \in BOOLEAN, partial \in BOOLEAN, size \in FileSizes :
       IF ok
       THEN /\ disk' = cleanup(disk \cup {Mp3Path}, {Val(downloadedAudio)})
            /\ dresponse' = Some(Attachment("audio/mpeg", safeName \o <<".mp3">>, size))
            /\ fileStream' = Some(ReadStream(size))
            /\ dpc' = "stream"
       ELSE /\ disk' = cleanup(disk \cup (IF partial THEN {Mp3Path} ELSE {}), CaughtMp3)
            /\ dresponse' = Some(Failure)
            /\ dpc' = "finished"
            /\ UNCHANGED fileStream
  /\ UNCHANGED <<dformat, dvideoId, safeName, downloadedAudio, retryVars, loaderVars,
                 relayVars, resolveVars, crawlVars>>

\* mp4 branch: yt-dlp settles, then the existsSync test.
VideoFetched ==
  /\ dpc = "fetch"
  /\ dformat = "mp4"
  /\ \E ok \in BOOLEAN, written \in BOOLEAN, size \in FileSizes :
       LET onDisk == disk \cup (IF written THEN {Mp4Path} ELSE {})
       IN IF ok /\ Mp4Path \in onDisk
          THEN /\ disk' = onDisk
               /\ dresponse' = Some(Attachment("video/mp4", safeName \o <<".mp4">>, size))
               /\ fileStream' = Some(ReadStream(size))
               /\ dpc' = "stream"
          ELSE /\ disk' = cleanup(onDisk, CaughtMp4)
               /\ dresponse' = Some(Failure)
               /\ dpc' = "finished"
               /\ UNCHANGED fileStream
  /\ UNCHANGED <<dformat, dvideoId, safeName, downloadedAudio, retryVars, loaderVars,
                 relayVars, resolveVars, crawlVars>>

StreamedPath == IF dformat = "mp3" THEN Mp3Path ELSE Mp4Path

\* The file stream reads one more chunk and the controller enqueues it.
StreamData ==
  /\ dpc = "stream"
  /\ Val(fileStream).read < Val(fileStream).size
  /\ fileStream' = Some([Val(fileStream) EXCEPT !.read = @ + 1])
  /\ UNCHANGED <<dpc, dformat, dvideoId, safeName, disk, downloadedAudio, dresponse,
                 retryVars, loaderVars, relayVars, resolveVars, crawlVars>>

\* The stream is over: the handler of "end", of "error" or of cancel() runs
\* cleanup on the streamed file.
StreamOver ==
  /\ disk' = cleanup(disk, {StreamedPath})
  /\ dpc' = "finished"
  /\ UNCHANGED <<dformat, dvideoId, safeName, downloadedAudio, dresponse, fileStream,
                 retryVars, loaderVars, relayVars, resolveVars, crawlVars>>

\* fileStream.on("end")
StreamEnd ==
  /\ dpc = "stream"
  /\ Val(fileStream).read = Val(fileStream).size
  /\ StreamOver

\* fileStream.on("error"): a read fails before the end of the file.
StreamError ==
  /\ dpc = "stream"
  /\ Val(fileStream).read < Val(fileStream).size
  /\ StreamOver

\* cancel(): the caller goes away at any point of the stream.
StreamCancel ==
  /\ dpc = "stream"
  /\ StreamOver

InitDownload ==
  /\ dpc = "start"
  /\ dformat \in {"mp3", "mp4"}
  /\ dvideoId \in {None, Some("id")}
  /\ safeName = <<>>
  /\ disk = {}
  /\ downloadedAudio = None
  /\ dresponse = None
  /\ fileStream = None
  /\ RetryIdle
  /\ LoaderIdle
  /\ RelayIdle
  /\ ResolveIdle
  /\ CrawlIdle

NextDownload ==
  \/ DownloadGET
  \/ TitleFetched
  \/ AudioFetched
  \/ Converted
  \/ VideoFetched
  \/ StreamData
  \/ StreamEnd
  \/ StreamError
  \/ StreamCancel

DownloadSpec == InitDownload /\ [][NextDownload]_vars

\* C39: when GET /api/download has finished by any path, no temp file that
\* carries its uid remains on disk.
C39_NoTempFileRemains == dpc = "finished" => disk = {}

====
